---------------------------- MODULE Spec2Model ----------------------------
(***************************************************************************)
(* Verification model of the RealLive / Siglus toolkit: the Siglus LZ77    *)
(* codec, the RealLive codec pipeline (rlcmp), the SEEN archive (kprl      *)
(* archiver), the range grammar and the bytecode disassembler.             *)
(*                                                                         *)
(* Byte buffers are sequences of integers 0..255; Go's 0-based index i is  *)
(* the TLA+ index i+1 (operator At).  Each subsystem has its own           *)
(* specification (SpecLZ, SpecCmp, SpecArc, SpecRange, SpecDis); the       *)
(* variables of the other subsystems stay at their idle value.             *)
(***************************************************************************)
EXTENDS Integers, Sequences, FiniteSets, TLC

VARIABLES
    \* --- Siglus LZ77 encoder (compress.go, Compress) ---
    lzIn,       \* in []byte : the input of Compress
    lzOut,      \* out []byte : the output buffer
    lzInPos,    \* inPos
    lzOutPos,   \* outPos
    lzPc,       \* "idle" | "loop" (at the head of the outer for) | "done" | "panic"
    lzFrame,    \* the value Compress returned (<<>> before it returns)
    \* --- codec pipeline (rlcmp.go) ---
    cmpIn,      \* the uncompressed bytecode file f
    cmpKeys,    \* keys []gamedef.XORSubkey
    cmpOut,     \* the result of Compress(f, keys)
    cmpBack,    \* the result of Decompress(cmpOut, keys, true)
    cmpPc,      \* "idle" | "start" | "compressed" | "done"
    \* --- SEEN archive on the filesystem (archiver.go) ---
    arcFile,    \* the file at arcName: [exists, buf]
    tmpFile,    \* the file at arcName + ".tmp"
    tmpHandle,  \* the handle oc of rebuildArc: "none", "open" or "closed"
    srcFiles,   \* the bytecode files on disk: name -> [exists, buf]
    arcPc,      \* position of the running operation ("idle" between operations)
    arcOp,      \* locals of the running operation (of the last one when idle)
    arcRet,     \* outcome of the last operation: "none" | "nil" | "error" | "panic"
    arcFaults,  \* number of filesystem calls that have failed
    arcLog,     \* the operations started so far, in order
    arcInit,    \* the file at arcName before the first operation
    \* --- SeenCount applied to a buffer ---
    scArr,      \* arr
    scRet,      \* the value SeenCount(arr) returned
    scPc,       \* "idle" | "call" | "done"
    \* --- ParseRanges applied to an argument list ---
    rgArgs,     \* args []string, each a sequence of characters
    rgOut,      \* what ParseRanges returned: [err, result]
    rgPc,       \* "idle" | "call" | "done"
    \* --- Disassemble (disasm) ---
    disRd,      \* the Reader's fixed fields: [data, origin, limit, mode]
    disPos,     \* reader.pos
    disHdr,     \* hdr.KidokuLnums
    disOpts,    \* opts: [SeparateStrings, ControlCodes, ReadDebugSymbols]
    disResult,  \* result: [Commands, ResStrs, Pointers, EntryPoints, Error]
    disPc,      \* "idle" | "loop" (at the test of the main loop) | "done"
    \* --- WriteSource (disasm writer) ---
    wrResult,   \* result: [Commands, Pointers]
    wrOpts,     \* w.opts: [SuppressUncalled, ReadDebugSymbols, Annotate, ShowOpcodes]
    wrNext,     \* the range loop over result.Commands: index of the next command
    wrSkipping, \* skipping
    wrSrc,      \* srcFile: the texts written, each with the index of the command of its turn
    wrPc,       \* "idle" | "open" | "loop" | "nil" | "error"
    \* --- ReadFileHeader and ReadFullHeader applied to a buffer (bytecode) ---
    hdArr,      \* arr.Data
    hdRet,      \* what the call returned: [hdr, EntryPoints, KidokuLnums, DramatisPersonae]
    hdPc,       \* "idle" | "call" | "file" (ReadFileHeader returned) | "full" (ReadFullHeader did)
    \* --- Siglus scene strings (siglus, InjectSS then DumpSS) ---
    ssBuf,      \* the file at ssPath
    ssRows,     \* the rows of the TSV after its header: [idx, tr], tr the third field
    ssOut,      \* what InjectSS did: [ok, panic, data], data the file at outputPath
    ssDump,     \* what DumpSS(outputPath) returned: [ok, panic, lines]
    ssPc,       \* "idle" | "inject" | "injected" | "dumped"
    \* --- Siglus Scene.pck (siglus, ExtractPCK then RebuildPCK) ---
    pckBuf,     \* the file at pckPath
    pckDir,     \* the files of outputDir: file name -> contents
    pckFault,   \* the file name whose os.WriteFile fails (<<>>: none does)
    pckRet,     \* what ExtractPCK returned: "none" | "nil" | "error" | "panic"
    pckRb,      \* what RebuildPCK returned: [ret, missing, out]
    pckPc,      \* "idle" | "extract" | "extracted" | "rebuilt"
    \* --- the Reader on its own ---
    rdR,        \* the reader [data, origin, limit, mode]
    rdPos,      \* its field pos
    rdCalls,    \* the last two calls: [op, n, ok, before, after]
    \* --- searchData and the token of a back-reference ---
    tkBuf,      \* the input of Compress
    tkPos,      \* inPos, where searchData is called
    tkMatch,    \* what searchData returned: <<offset, length - 2>>
    tkRef,      \* the token written, ref
    tkPc,       \* idle, search or done
    \* --- the metadata block (ToBytes then Read) ---
    mdArgs,     \* the arguments of ToBytes
    mdBuf,      \* the block
    mdOut,      \* what Read returned
    mdPc        \* call, written, read

lzVars == <<lzIn, lzOut, lzInPos, lzOutPos, lzPc, lzFrame>>
cmpVars == <<cmpIn, cmpKeys, cmpOut, cmpBack, cmpPc>>

arcVars == <<arcFile, tmpFile, tmpHandle, srcFiles, arcPc, arcOp, arcRet,
             arcFaults, arcLog, arcInit>>

scVars == <<scArr, scRet, scPc>>

rgVars == <<rgArgs, rgOut, rgPc>>

disVars == <<disRd, disPos, disHdr, disOpts, disResult, disPc>>

wrVars == <<wrResult, wrOpts, wrNext, wrSkipping, wrSrc, wrPc>>

hdVars == <<hdArr, hdRet, hdPc>>

ssVars == <<ssBuf, ssRows, ssOut, ssDump, ssPc>>

pckVars == <<pckBuf, pckDir, pckFault, pckRet, pckRb, pckPc>>

rdVars == <<rdR, rdPos, rdCalls>>

tkVars == <<tkBuf, tkPos, tkMatch, tkRef, tkPc>>

mdVars == <<mdArgs, mdBuf, mdOut, mdPc>>

vars == <<lzVars, cmpVars, arcVars, scVars, rgVars, disVars, wrVars, hdVars,
          ssVars, pckVars, rdVars, tkVars, mdVars>>

notLz == <<cmpVars, arcVars, scVars, rgVars, disVars, wrVars, hdVars, ssVars,
           pckVars, rdVars, tkVars, mdVars>>
notCmp == <<lzVars, arcVars, scVars, rgVars, disVars, wrVars, hdVars, ssVars,
            pckVars, rdVars, tkVars, mdVars>>
notArc == <<lzVars, cmpVars, scVars, rgVars, disVars, wrVars, hdVars, ssVars,
            pckVars, rdVars, tkVars, mdVars>>
notSc == <<lzVars, cmpVars, arcVars, rgVars, disVars, wrVars, hdVars, ssVars,
           pckVars, rdVars, tkVars, mdVars>>
notRg == <<lzVars, cmpVars, arcVars, scVars, disVars, wrVars, hdVars, ssVars,
           pckVars, rdVars, tkVars, mdVars>>
notDis == <<lzVars, cmpVars, arcVars, scVars, rgVars, wrVars, hdVars, ssVars,
            pckVars, rdVars, tkVars, mdVars>>
notWr == <<lzVars, cmpVars, arcVars, scVars, rgVars, disVars, hdVars, ssVars,
           pckVars, rdVars, tkVars, mdVars>>
notHd == <<lzVars, cmpVars, arcVars, scVars, rgVars, disVars, wrVars, ssVars,
           pckVars, rdVars, tkVars, mdVars>>
notSs == <<lzVars, cmpVars, arcVars, scVars, rgVars, disVars, wrVars, hdVars,
           pckVars, rdVars, tkVars, mdVars>>
notPck == <<lzVars, cmpVars, arcVars, scVars, rgVars, disVars, wrVars,
            hdVars, ssVars, rdVars, tkVars, mdVars>>
notRd == <<lzVars, cmpVars, arcVars, scVars, rgVars, disVars, wrVars, hdVars,
           ssVars, pckVars, tkVars, mdVars>>
notTk == <<lzVars, cmpVars, arcVars, scVars, rgVars, disVars, wrVars, hdVars,
           ssVars, pckVars, rdVars, mdVars>>
notMd == <<lzVars, cmpVars, arcVars, scVars, rgVars, disVars, wrVars, hdVars,
           ssVars, pckVars, rdVars, tkVars>>

-----------------------------------------------------------------------------
(* Bytes and little-endian integers (encoding/binary, binarray.go)         *)

Min(a, b) == IF a < b THEN a ELSE b
Max(a, b) == IF a > b THEN a ELSE b

\* Go's s[i] for a 0-based index
At(s, i) == s[i + 1]

\* Go's s[lo:hi]
Slice(s, lo, hi) == SubSeq(s, lo + 1, hi)

Zeros(n) == [i \in 1..n |-> 0]

\* copy(dst[off:], src): overwrites min(len(src), len(dst)-off) bytes
CopyInto(dst, off, src) ==
    [i \in 1..Len(dst) |->
        IF i > off /\ i <= off + Len(src) THEN src[i - off] ELSE dst[i]]

\* binary.LittleEndian.PutUint32 of uint32(v), for v an int32 (the model's
\* integers are 32 bits wide, so a negative v stands for the uint32 v + 2^32)
LE32(v) ==
    LET u == IF v < 0 THEN (v + 2147483647) + 1 ELSE v
        top == IF v < 0 THEN 128 ELSE 0
    IN  << u % 256, (u \div 256) % 256, (u \div 65536) % 256,
           ((u \div 16777216) % 256) + top >>

\* binary.LittleEndian.PutUint16
LE16(v) == << v % 256, (v \div 256) % 256 >>

\* int32(binary.LittleEndian.Uint32(b[i:]))
Int32At(s, i) ==
    LET b3 == At(s, i + 3)
    IN  At(s, i) + 256 * At(s, i + 1) + 65536 * At(s, i + 2)
          + 16777216 * (IF b3 >= 128 THEN b3 - 256 ELSE b3)

\* int(binary.LittleEndian.Uint32(b[i:])) for the values below 2^31 that the
\* model's buffers hold
Uint32At(s, i) == Int32At(s, i)

\* binary.LittleEndian.Uint16(b[i:])
Uint16At(s, i) == At(s, i) + 256 * At(s, i + 1)

RECURSIVE XorBits(_, _, _)
XorBits(a, b, n) ==
    IF n = 0 THEN 0
    ELSE ((a + b) % 2) + 2 * XorBits(a \div 2, b \div 2, n - 1)

\* a ^ b on bytes
XorByte(a, b) == XorBits(a, b, 8)

-----------------------------------------------------------------------------
(* Siglus LZ77 codec (src/Siglus go/siglus/compress.go)                    *)

lookback == 4096
level == 17
acceptLevel == 3

\* bound of the model: the outer loop of Compress is followed until outPos
\* reaches MaxOutPos
MaxOutPos == 20
\* bound of the model: inputs of Compress have at most MaxLzLen bytes
MaxLzLen == 5
LzAlphabet == {0, 1}

RECURSIVE lzMatchLen(_, _, _, _, _)
\* the inner loop of searchData: matchLen for one candidate offset
lzMatchLen(buf, start, pos, maxMatch, matchLen) ==
    IF matchLen < maxMatch /\ At(buf, start + matchLen) = At(buf, pos + matchLen)
    THEN lzMatchLen(buf, start, pos, maxMatch, matchLen + 1)
    ELSE matchLen

\* searchData: <<offset, length-2>>, or <<0, 0>> when there is no match.
\* The for loop keeps the first offset whose match is strictly longer than
\* every earlier one, i.e. the smallest offset of maximal match length; the
\* early break at bestLen == maxMatch does not change that.
searchData(buf, pos) ==
    LET maxSearch == Min(pos, lookback)
        maxMatch  == IF pos + level > Len(buf) THEN Len(buf) - pos ELSE level
    IN  IF pos < acceptLevel THEN <<0, 0>>
        ELSE IF maxMatch < acceptLevel THEN <<0, 0>>
        ELSE
          LET ml(off) == lzMatchLen(buf, pos - off, pos, maxMatch, 0)
              lens    == {ml(off) : off \in 1..maxSearch}
              bestLen == CHOOSE l \in lens : \A k \in lens : k <= l
              bestOff == CHOOSE off \in 1..maxSearch :
                            /\ ml(off) = bestLen
                            /\ \A o \in 1..(off - 1) : ml(o) < bestLen
          IN  IF bestLen < acceptLevel THEN <<0, 0>> ELSE <<bestOff, bestLen - 2>>

\* out[pos] = b; an index outside the slice is a run-time panic (ok = FALSE)
lzPut(st, pos, b) ==
    IF pos < Len(st.out)
    THEN [st EXCEPT !.out = [st.out EXCEPT ![pos + 1] = b]]
    ELSE [st EXCEPT !.ok = FALSE]

\* ref := uint16((offset << 4) | (mlen & 0x0F)); offset << 4 has its four
\* low bits clear, so the or is a sum
lzRef(offset, mlen) == (offset * 16 + (mlen % 16)) % 65536

RECURSIVE lzInner(_, _, _)
\* the inner for i := 0; i < 8; i++ of Compress; st = [inPos, out, outPos, ctrl, ok]
lzInner(in, st, i) ==
    IF i >= 8 \/ st.inPos >= Len(in) \/ ~st.ok THEN st
    ELSE
      LET m == searchData(in, st.inPos)
          offset == m[1]
          mlen == m[2]
          st2 ==
            IF offset = 0
            THEN \* literal byte
              LET g == IF st.outPos >= Len(st.out)
                       THEN [st EXCEPT !.out = Append(st.out, 0)] ELSE st
                  w == lzPut(g, g.outPos, At(in, g.inPos))
              IN  [w EXCEPT !.outPos = @ + 1, !.inPos = @ + 1,
                            !.ctrl = @ + 2 ^ i]
            ELSE \* back reference: uint16((offset << 4) | (mlen & 0x0F))
              LET ref == lzRef(offset, mlen)
                  g == IF st.outPos + 1 >= Len(st.out)
                       THEN [st EXCEPT !.out = st.out \o <<0, 0>>] ELSE st
                  w1 == lzPut(g, g.outPos, ref % 256)
                  w2 == lzPut(w1, g.outPos + 1, ref \div 256)
              IN  [w2 EXCEPT !.outPos = @ + 2, !.inPos = @ + mlen + 2]
      IN  IF st2.inPos >= Len(in) THEN st2 ELSE lzInner(in, st2, i + 1)

\* the body of the outer loop  for inPos <= srcLen { ... }  of Compress
lzOuterBody(in, out, inPos, outPos) ==
    LET ctrlPos == outPos
        r == lzInner(in, [inPos |-> inPos, out |-> out, outPos |-> outPos + 1,
                          ctrl |-> 0, ok |-> TRUE], 0)
    IN  IF ctrlPos < Len(r.out)
        THEN [r EXCEPT !.out = [r.out EXCEPT ![ctrlPos + 1] = r.ctrl]]
        ELSE r

\* the header and the return of Compress: out[:compLen] with both lengths
lzFinish(out, outPos, srcLen) ==
    Slice(CopyInto(CopyInto(out, 0, LE32(outPos)), 4, LE32(srcLen)), 0, outPos)

\* One turn of the outer loop of Compress: the loop test, then either the
\* body or the code after the loop.
LzStep ==
    /\ lzPc = "loop"
    /\ lzOutPos < MaxOutPos
    /\ IF lzInPos <= Len(lzIn)
       THEN LET r == lzOuterBody(lzIn, lzOut, lzInPos, lzOutPos)
            IN  /\ lzOut' = r.out
                /\ lzInPos' = r.inPos
                /\ lzOutPos' = r.outPos
                /\ lzPc' = IF r.ok THEN "loop" ELSE "panic"
                /\ lzFrame' = lzFrame
       ELSE /\ lzFrame' = lzFinish(lzOut, lzOutPos, Len(lzIn))
            /\ lzPc' = "done"
            /\ UNCHANGED <<lzOut, lzInPos, lzOutPos>>
    /\ UNCHANGED lzIn
    /\ UNCHANGED notLz

\* one call of searchData(in, inPos) in the inner loop of Compress and,
\* for a match, the token written for it
TkSearch ==
    /\ tkPc = "search"
    /\ tkMatch' = searchData(tkBuf, tkPos)
    /\ tkRef' = IF tkMatch'[1] = 0 THEN 0 ELSE lzRef(tkMatch'[1], tkMatch'[2])
    /\ tkPc' = "done"
    /\ UNCHANGED <<tkBuf, tkPos>>
    /\ UNCHANGED notTk

\* bound of the model: the short inputs have at most MaxTkLen bytes
MaxTkLen == 6

\* an input whose only match at 4096 lies a whole window back
TkWindowInput == <<65, 66, 67>> \o Zeros(lookback - 3) \o <<65, 66, 67>>

\* the calls: every position of every short input; in the long input the
\* operations of Compress start at 0, 1, 2, 3, 4, 21, ..., 4084, 4096
TkCalls ==
    { <<b, p>> : b \in UNION {[1..n -> LzAlphabet] : n \in 1..MaxTkLen},
                 p \in 0..(MaxTkLen - 1) }
      \cup { <<TkWindowInput, p>> : p \in {3, 4, 21, 4084, lookback} }

TkIdle ==
    /\ tkBuf = <<>>
    /\ tkPos = 0
    /\ tkMatch = <<0, 0>>
    /\ tkRef = 0
    /\ tkPc = "idle"

RECURSIVE lzDecCopy(_, _, _, _, _)
\* for j := 0; j < copyLen && dst < decLen; j++ { out[dst] = out[dst-offset] }
lzDecCopy(out, dst, offset, n, decLen) ==
    IF n = 0 \/ dst >= decLen THEN [out |-> out, dst |-> dst, ok |-> TRUE]
    ELSE IF dst - offset < 0 THEN [out |-> out, dst |-> dst, ok |-> FALSE]
    ELSE lzDecCopy([out EXCEPT ![dst + 1] = At(out, dst - offset)],
                   dst + 1, offset, n - 1, decLen)

RECURSIVE lzDecInner(_, _, _, _, _, _)
\* the inner for i := 0; i < 8 && dst < decLen; i++ of Decompress
lzDecInner(src, out, dst, decLen, flag, i) ==
    IF i >= 8 \/ dst >= decLen \/ Len(src) = 0
    THEN [src |-> src, out |-> out, dst |-> dst, ok |-> TRUE]
    ELSE IF flag % 2 # 0
    THEN lzDecInner(Tail(src), [out EXCEPT ![dst + 1] = Head(src)], dst + 1,
                    decLen, flag \div 2, i + 1)
    ELSE IF Len(src) < 2
    THEN [src |-> src, out |-> out, dst |-> dst, ok |-> TRUE]
    ELSE
      LET ref == Uint16At(src, 0)
          c == lzDecCopy(out, dst, ref \div 16, (ref % 16) + 2, decLen)
      IN  IF ~c.ok THEN [src |-> src, out |-> c.out, dst |-> c.dst, ok |-> FALSE]
          ELSE lzDecInner(Slice(src, 2, Len(src)), c.out, c.dst, decLen,
                          flag \div 2, i + 1)

RECURSIVE lzDecOuter(_, _, _, _)
\* the outer for dst < decLen of Decompress
lzDecOuter(src, out, dst, decLen) ==
    IF dst >= decLen \/ Len(src) = 0 THEN out
    ELSE
      LET r == lzDecInner(Tail(src), out, dst, decLen, Head(src), 0)
      IN  IF ~r.ok THEN <<"panic">>
          ELSE lzDecOuter(r.src, r.out, r.dst, decLen)

\* Decompress(data): nil (<<>>) for a frame shorter than its header
Decompress(data) ==
    IF Len(data) < 8 THEN <<>>
    ELSE LET decLen == Uint32At(data, 4)
         IN  lzDecOuter(Slice(data, 8, Len(data)), Zeros(decLen), 0, decLen)

LzInputs == UNION {[1..n -> LzAlphabet] : n \in 0..MaxLzLen}

-----------------------------------------------------------------------------
(* RealLive codec primitives (package compression: Compress, Decompress,   *)
(* ApplyMask, ApplyXORKeys).  Written from the design's sections 4.2 and   *)
(* 4.3; the callers in rlcmp.go and the tests in compression_test.go fix   *)
(* the signatures.                                                         *)

\* The static mask: a fixed 256-byte table (its values are not part of the
\* design; this table stands for it)
xorMask(i) == (i * 37 + 139) % 256

\* apply_mask(buf, origin): buf[i] ^= mask[(i - origin) mod 256] for i >= origin
ApplyMask(buf, origin) ==
    [i \in 1..Len(buf) |->
        IF i - 1 >= origin /\ origin >= 0
        THEN XorByte(buf[i], xorMask((i - 1 - origin) % 256))
        ELSE buf[i]]

RECURSIVE applyKey(_, _, _)
\* one subkey: buf[k.offset + i] ^= k.data[i mod 16] for i < k.length
applyKey(buf, k, i) ==
    IF i >= k.length THEN buf
    ELSE applyKey(
           IF k.offset + i >= 0 /\ k.offset + i < Len(buf)
           THEN [buf EXCEPT ![k.offset + i + 1] = XorByte(@, k.data[(i % 16) + 1])]
           ELSE buf,
           k, i + 1)

RECURSIVE ApplyXORKeys(_, _)
\* apply_keys(buf, keys): every subkey in turn
ApplyXORKeys(buf, keys) ==
    IF keys = <<>> THEN buf
    ELSE ApplyXORKeys(applyKey(buf, Head(keys), 0), Tail(keys))

RECURSIVE rlMatchLen(_, _, _, _, _)
rlMatchLen(buf, start, pos, maxMatch, n) ==
    IF n < maxMatch /\ At(buf, start + n) = At(buf, pos + n)
    THEN rlMatchLen(buf, start, pos, maxMatch, n + 1)
    ELSE n

\* the encoder's match search: the longest prior match in the 4 096-byte
\* window, at most 17 long, ties to the smallest offset; <<0, 0>> below 3
rlBestMatch(buf, pos) ==
    LET maxSearch == Min(pos, 4096)
        maxMatch  == Min(17, Len(buf) - pos)
        ml(off)   == rlMatchLen(buf, pos - off, pos, maxMatch, 0)
        lens      == {ml(off) : off \in 1..maxSearch} \cup {0}
        bestLen   == CHOOSE l \in lens : \A k \in lens : k <= l
    IN  IF bestLen < 3 THEN <<0, 0>>
        ELSE << CHOOSE off \in 1..maxSearch :
                   ml(off) = bestLen /\ \A o \in 1..(off - 1) : ml(o) < bestLen,
                bestLen >>

RECURSIVE rlGroup(_, _, _, _, _)
\* one group of up to 8 operations: [pos, ctrl, body]
rlGroup(buf, pos, i, ctrl, body) ==
    IF i >= 8 \/ pos >= Len(buf) THEN [pos |-> pos, ctrl |-> ctrl, body |-> body]
    ELSE LET m == rlBestMatch(buf, pos)
         IN  IF m[2] = 0
             THEN rlGroup(buf, pos + 1, i + 1, ctrl + 2 ^ i,
                          Append(body, At(buf, pos)))
             ELSE rlGroup(buf, pos + m[2], i + 1, ctrl,
                          body \o LE16(m[1] * 16 + (m[2] - 2)))

RECURSIVE rlStream(_, _)
rlStream(buf, pos) ==
    IF pos >= Len(buf) THEN <<>>
    ELSE LET g == rlGroup(buf, pos, 0, 0, <<>>)
         IN  <<g.ctrl>> \o g.body \o rlStream(buf, g.pos)

\* compression.Compress(data): the control-bit-packed stream, without the
\* 8-byte frame header (the caller writes it)
rlCompress(data) == rlStream(data, 0)

RECURSIVE rlCopy(_, _, _, _)
\* a back reference: n bytes from dst[dstPos - offset ..], byte by byte
rlCopy(out, dstPos, offset, n) ==
    IF n = 0 \/ dstPos >= Len(out) THEN [out |-> out, pos |-> dstPos, ok |-> TRUE]
    ELSE IF offset <= 0 \/ dstPos - offset < 0
    THEN [out |-> out, pos |-> dstPos, ok |-> FALSE]
    ELSE rlCopy([out EXCEPT ![dstPos + 1] = At(out, dstPos - offset)],
                dstPos + 1, offset, n - 1)

RECURSIVE rlDecode(_, _, _, _, _)
\* the inner stream: src from 0-based srcPos, flag bits LSB first
rlDecode(src, srcPos, out, dstPos, bits) ==
    IF dstPos >= Len(out) \/ srcPos >= Len(src)
    THEN [out |-> out, ok |-> TRUE]
    ELSE IF bits = <<>>
    THEN LET c == At(src, srcPos)
         IN  rlDecode(src, srcPos + 1, out, dstPos,
                      [i \in 1..8 |-> (c \div (2 ^ (i - 1))) % 2])
    ELSE IF Head(bits) = 1
    THEN rlDecode(src, srcPos + 1, [out EXCEPT ![dstPos + 1] = At(src, srcPos)],
                  dstPos + 1, Tail(bits))
    ELSE IF srcPos + 2 > Len(src) THEN [out |-> out, ok |-> FALSE]
    ELSE LET t == Uint16At(src, srcPos)
             c == rlCopy(out, dstPos, t \div 16, (t % 16) + 2)
         IN  IF ~c.ok THEN [out |-> c.out, ok |-> FALSE]
             ELSE rlDecode(src, srcPos + 2, c.out, c.pos, Tail(bits))

\* compression.Decompress(src, dst): src is a frame (8-byte header, then the
\* stream); fills dst; [ok, out]
rlDecompress(src, dstLen) ==
    IF Len(src) < 8 THEN [out |-> Zeros(dstLen), ok |-> FALSE]
    ELSE rlDecode(src, 8, Zeros(dstLen), 0, <<>>)

-----------------------------------------------------------------------------
(* Buffers (binarray.go).  A buffer is [hasIndex, index, data]: a plain     *)
(* byte slice is data alone; a buffer that starts with the 80 000-byte     *)
(* SEEN index keeps the index as the map slot -> [Offset, Length] of its   *)
(* non-zero entries (every other entry is eight zero bytes) followed by    *)
(* data.  The bytes of the index region are the little-endian encodings    *)
(* of the entries, so every byte of the buffer is defined.                 *)

MaxSeens == 10000
IndexSize == MaxSeens * 8

Plain(bytes) == [hasIndex |-> FALSE, index |-> <<>>, data |-> bytes]

\* Len
BLen(b) == (IF b.hasIndex THEN IndexSize ELSE 0) + Len(b.data)

indexByte(index, p) ==
    LET slot == p \div 8
        e == IF slot \in DOMAIN index THEN index[slot]
             ELSE [Offset |-> 0, Length |-> 0]
        v == IF (p % 8) < 4 THEN e.Offset ELSE e.Length
    IN  LE32(v)[(p % 4) + 1]

\* b.Data[p]
BByte(b, p) ==
    IF b.hasIndex
    THEN IF p < IndexSize THEN indexByte(b.index, p) ELSE b.data[p - IndexSize + 1]
    ELSE b.data[p + 1]

\* Read(idx, length) / b.Data[idx : idx+length]
BRead(b, idx, n) == [i \in 1..n |-> BByte(b, idx + i - 1)]

\* GetInt(idx)
BGetInt(b, idx) == Int32At(BRead(b, idx, 4), 0)

-----------------------------------------------------------------------------
(* Bytecode file headers (package bytecode, in src/Rldev/kprl/pkg/disasm/  *)
(* types.go)                                                               *)

HeaderV1 == 1
HeaderV2 == 2

magicKP2K == <<75, 80, 50, 75>>
magicRD2K == <<82, 68, 50, 75>>
magicKPRL == <<75, 80, 82, 76>>
magicRDRL == <<82, 68, 82, 76>>
magicKPRM == <<75, 80, 82, 77>>
magicRDRM == <<82, 68, 82, 77>>
magicD001 == <<208, 1, 0, 0>>
magicCC01 == <<204, 1, 0, 0>>
magicB801 == <<184, 1, 0, 0>>

\* IsBytecode(arr, idx), for idx >= 0
IsBytecode(arr, idx) ==
    IF idx + 8 > BLen(arr) THEN FALSE
    ELSE LET id == BRead(arr, idx, 4)
         IN  IF id \in {magicRDRL, magicRD2K, magicRDRM} THEN TRUE
             ELSE IF id \in {magicKPRL, magicKP2K, magicKPRM,
                             magicD001, magicCC01, magicB801}
             THEN LET ver == BGetInt(arr, idx + 4)
                  IN  ver = 10002 \/ ver = 110002 \/ ver = 1110002
             ELSE FALSE

\* UncompressedHeader(magic)
UncompressedHeader(magic) ==
    magic \in {magicKPRL, magicKP2K, magicKPRM, magicRDRL, magicRD2K, magicRDRM}

EmptyHeader ==
    [ok |-> TRUE, panic |-> FALSE, HeaderVersion |-> 0, CompilerVersion |-> 0,
     DataOffset |-> 0, UncompressedSize |-> 0, CompressedSize |-> -1,
     IsCompressed |-> FALSE, Int0x2C |-> 0, Archived |-> FALSE]

\* the outcome "error returned" and the outcome "index out of range" (a
\* run-time panic of a GetInt past the end of the slice)
HeaderError == [EmptyHeader EXCEPT !.ok = FALSE]
HeaderPanic == [EmptyHeader EXCEPT !.ok = FALSE, !.panic = TRUE]

\* ReadFileHeader(arr, archived), arr a plain byte slice
ReadFileHeader(arr, archived) ==
    IF ~IsBytecode(Plain(arr), 0) THEN HeaderError
    ELSE
      LET magic == Slice(arr, 0, 4)
          ver == IF Slice(magic, 0, 2) = <<82, 68>>
                 THEN (IF Slice(magic, 2, 4) = <<82, 77>> THEN 110002 ELSE 10002)
                 ELSE Int32At(arr, 4)
          hdr == [EmptyHeader EXCEPT !.Archived = archived, !.CompilerVersion = ver]
      IN  IF magic \in {magicKP2K, magicRD2K, magicCC01}
          THEN IF Len(arr) < 44 THEN HeaderPanic
               ELSE [hdr EXCEPT !.HeaderVersion = HeaderV1,
                                !.DataOffset = 460 + Int32At(arr, 32) * 4,
                                !.UncompressedSize = Int32At(arr, 36),
                                !.Int0x2C = Int32At(arr, 40)]
          ELSE IF magic \in {magicKPRL, magicRDRL, magicKPRM, magicRDRM, magicD001}
          THEN IF Len(arr) < 48 THEN HeaderPanic
               ELSE LET compSize == Int32At(arr, 40)
                    IN  [hdr EXCEPT !.HeaderVersion = HeaderV2,
                                    !.DataOffset = Int32At(arr, 32),
                                    !.UncompressedSize = Int32At(arr, 36),
                                    !.CompressedSize =
                                        IF compSize > 0 THEN compSize ELSE -1,
                                    !.IsCompressed = (compSize > 0),
                                    !.Int0x2C = Int32At(arr, 44)]
          ELSE HeaderError

-----------------------------------------------------------------------------
(* Codec pipeline (src/Rldev 2026.2/common/pkg/rlcmp/rlcmp.go).  Results   *)
(* are [ok, panic, data]: ok = FALSE with panic = FALSE is a returned      *)
(* error, panic = TRUE a slice index out of range.                         *)

CmpError == [ok |-> FALSE, panic |-> FALSE, data |-> <<>>]
CmpPanic == [ok |-> FALSE, panic |-> TRUE, data |-> <<>>]
CmpOk(bytes) == [ok |-> TRUE, panic |-> FALSE, data |-> bytes]

\* rlcmp.Decompress(arr, keys, archived)
RlDecompress(arr, keys, archived) ==
    LET hdr == ReadFileHeader(arr, archived)
    IN  IF hdr.panic THEN CmpPanic
        ELSE IF ~hdr.ok THEN CmpError
        ELSE
          LET masked == ApplyMask(arr, hdr.DataOffset)
          IN  IF ~hdr.IsCompressed THEN CmpOk(masked)
              ELSE IF \/ hdr.DataOffset < 0
                      \/ hdr.UncompressedSize < 0
                      \/ hdr.DataOffset > Len(arr)
                      \/ hdr.DataOffset + hdr.CompressedSize > Len(arr)
              THEN CmpPanic
              ELSE
                LET compData == Slice(masked, hdr.DataOffset,
                                      hdr.DataOffset + hdr.CompressedSize)
                    d == rlDecompress(compData, hdr.UncompressedSize)
                    dst == IF hdr.Archived /\ Len(keys) > 0
                           THEN ApplyXORKeys(d.out, keys) ELSE d.out
                IN  IF ~d.ok THEN CmpError
                    ELSE CmpOk(Slice(masked, 0, hdr.DataOffset) \o dst)

\* rlcmp.Compress(arr, keys)
RlCompress(arr, keys) ==
    LET hdr == ReadFileHeader(arr, FALSE)
        dataOffset == hdr.DataOffset
    IN  IF hdr.panic THEN CmpPanic
        ELSE IF ~hdr.ok THEN CmpError
        ELSE IF ~hdr.IsCompressed
        THEN CmpOk(ApplyMask(CopyInto(arr, 4, LE32(hdr.CompilerVersion)),
                             dataOffset))
        ELSE IF dataOffset < 8 \/ dataOffset > Len(arr) THEN CmpPanic
        ELSE
          LET uncompressedSize == Len(arr) - dataOffset
              data == Slice(arr, dataOffset, Len(arr))
              keyed == IF Len(keys) > 0 THEN ApplyXORKeys(data, keys) ELSE data
              compressed == rlCompress(keyed)
              compressedSize == Len(compressed) + 8
              rv0 == Slice(arr, 0, dataOffset) \o LE32(compressedSize)
                        \o LE32(uncompressedSize) \o compressed
              rv1 == CopyInto(rv0, 0, LE32(464))
              rv2 == CopyInto(rv1, 4, LE32(hdr.CompilerVersion))
              rv3 == CopyInto(rv2, 40, LE32(compressedSize))
          IN  IF Len(rv0) < 44 THEN CmpPanic
              ELSE CmpOk(ApplyMask(rv3, dataOffset))

\* --- the pipeline as a run: Compress, then Decompress of its result ---

MaxCmpLen == 4
CmpAlphabet == {0, 1}
CmpDataOffset == 48

\* a V2 header of CmpDataOffset (>= 48) bytes: magic, compiler version 10002, data
\* offset at 0x20, uncompressed size at 0x24, compressed size at 0x28
CmpHeader(magic, uncompressedSize, compressedSize) ==
    magic \o LE32(10002) \o Zeros(24) \o LE32(CmpDataOffset)
          \o LE32(uncompressedSize) \o LE32(compressedSize) \o LE32(0)
          \o Zeros(CmpDataOffset - 48)

\* the uncompressed files: any data region; the size field at 0x24 is what
\* the file's producer wrote, equal to the length of the data region or not
CmpFiles ==
    { CmpHeader(magic, Len(d) + skew, comp) \o d :
        magic \in {magicD001, magicKPRL},
        d \in UNION {[1..n -> CmpAlphabet] : n \in 0..MaxCmpLen},
        skew \in {0, 1},
        comp \in {0, 1} }

CmpKeyLists ==
    { <<>>,
      << [offset |-> 1, length |-> 2,
          data |-> <<171, 205, 1, 2, 3, 4, 5, 6, 7, 8, 9, 10, 11, 12, 13, 14>>] >> }

CmpIdle ==
    /\ cmpIn = <<>>
    /\ cmpKeys = <<>>
    /\ cmpOut = CmpError
    /\ cmpBack = CmpError
    /\ cmpPc = "idle"

CmpCompress ==
    /\ cmpPc = "start"
    /\ cmpOut' = RlCompress(cmpIn, cmpKeys)
    /\ cmpPc' = "compressed"
    /\ UNCHANGED <<cmpIn, cmpKeys, cmpBack>>
    /\ UNCHANGED notCmp

CmpDecompress ==
    /\ cmpPc = "compressed"
    /\ cmpOut.ok
    /\ cmpBack' = RlDecompress(cmpOut.data, cmpKeys, TRUE)
    /\ cmpPc' = "done"
    /\ UNCHANGED <<cmpIn, cmpKeys, cmpOut>>
    /\ UNCHANGED notCmp

-----------------------------------------------------------------------------
(* SEEN archive (src/Rldev 2026.2/kprl/pkg/kprl/archiver.go)               *)

\* "\x00Empty RealLive archive"
emptyArcMagic ==
    <<0, 69, 109, 112, 116, 121, 32, 82, 101, 97, 108, 76, 105, 118, 101, 32,
      97, 114, 99, 104, 105, 118, 101>>

SeenEntry(off, len) == [Offset |-> off, Length |-> len]

\* getSubfileInfo(arc, idx)
getSubfileInfo(arc, idx) ==
    IF BLen(arc) <= 23 THEN SeenEntry(0, 0)
    ELSE SeenEntry(BGetInt(arc, idx * 8), BGetInt(arc, idx * 8 + 4))

\* the slots i whose entry has Length # 0.  A slot outside the sparse index
\* is eight zero bytes, so the loop's  if entry.Length == 0 { continue }
\* skips it.
NonEmptySlots(arr) ==
    IF arr.hasIndex
    THEN {i \in DOMAIN arr.index : getSubfileInfo(arr, i).Length # 0}
    ELSE {}

\* the test of one non-empty entry in SeenCount
seenEntryValid(arr, entry) ==
    /\ entry.Offset + entry.Length > IndexSize
    /\ entry.Offset + entry.Length <= BLen(arr)
    /\ IsBytecode(arr, entry.Offset)

\* SeenCount(arr): the loop over i = 0 .. MaxSeens-1 returns at the first
\* non-empty slot that fails the test, with the count of the slots before it
SeenCount(arr) ==
    IF BLen(arr) >= 23 /\ BRead(arr, 0, 23) = emptyArcMagic THEN 0
    ELSE IF BLen(arr) < IndexSize THEN -1
    ELSE
      LET slots == NonEmptySlots(arr)
          bad == {i \in slots : ~seenEntryValid(arr, getSubfileInfo(arr, i))}
      IN  IF bad = {} THEN Cardinality(slots)
          ELSE LET first == CHOOSE i \in bad : \A j \in bad : i <= j
                   count == Cardinality({i \in slots : i < first})
               IN  IF count > 0 THEN -count ELSE -1

RECURSIVE sortInsert(_, _)
sortInsert(sorted, x) ==
    IF sorted = <<>> THEN <<x>>
    ELSE IF x < Head(sorted) THEN <<x>> \o sorted
    ELSE <<Head(sorted)>> \o sortInsert(Tail(sorted), x)

\* a faulty sort that leaves the order as it is; C7 fails with it
unsortedInts(a) == a

RECURSIVE SortInts(_)
\* sort.Ints(a)
SortInts(a) ==
    IF a = <<>> THEN <<>>
    ELSE sortInsert(SortInts(SubSeq(a, 1, Len(a) - 1)), a[Len(a)])

\* resolveRanges(ranges); the empty list stands for every index
resolveRanges(ranges) ==
    IF Len(ranges) = 0 THEN [k \in 1..MaxSeens |-> k - 1]
    ELSE SortInts(ranges)

\* --- file names: sequences of one-character strings ---

RECURSIVE BaseName(_)
\* filepath.Base for a name that does not end with a separator
BaseName(name) ==
    IF \E k \in 1..Len(name) : name[k] = "/"
    THEN BaseName(Tail(name)) ELSE name

Digits == <<"0", "1", "2", "3", "4", "5", "6", "7", "8", "9">>
IsDigit(c) == \E d \in 1..10 : Digits[d] = c
DigitVal(c) == (CHOOSE d \in 1..10 : Digits[d] = c) - 1

\* the regular expression (?i)seen(\d{4}) matched at 1-based position k
seenReAt(name, k) ==
    /\ k + 7 <= Len(name)
    /\ name[k] \in {"s", "S"}
    /\ name[k + 1] \in {"e", "E"}
    /\ name[k + 2] \in {"e", "E"}
    /\ name[k + 3] \in {"n", "N"}
    /\ \A j \in 4..7 : IsDigit(name[k + j])

\* a faulty index, slot 2 whatever the name; C6 fails with it
seenIndexShifted(base) == 2

\* seenRe.FindStringSubmatch(base) and strconv.Atoi(match[1]): the leftmost
\* match; -1 stands for no match
seenIndexOf(base) ==
    LET at == {k \in 1..Len(base) : seenReAt(base, k)}
    IN  IF at = {} THEN -1
        ELSE LET k == CHOOSE x \in at : \A y \in at : x <= y
             IN  DigitVal(base[k + 4]) * 1000 + DigitVal(base[k + 5]) * 100
                   + DigitVal(base[k + 6]) * 10 + DigitVal(base[k + 7])

\* --- files ---

NoFile == [exists |-> FALSE, buf |-> Plain(<<>>)]
FileOf(b) == [exists |-> TRUE, buf |-> b]

\* IndexSize zero bytes followed by nothing
ZeroIndex == [hasIndex |-> TRUE, index |-> <<>>, data |-> <<>>]

\* opts.Keys
ArcKeys ==
    << [offset |-> 0, length |-> 2,
        data |-> <<171, 205, 1, 2, 3, 4, 5, 6, 7, 8, 9, 10, 11, 12, 13, 14>>] >>

\* readAndCompress(fname, opts), fname an existing file: [ok, panic, data]
readAndCompress(file) ==
    LET arr == file.buf
    IN  IF ~IsBytecode(arr, 0) THEN CmpError
        ELSE IF BLen(arr) >= 4 /\ ~UncompressedHeader(BRead(arr, 0, 4))
        THEN CmpOk(arr.data)
        ELSE RlCompress(arr.data, ArcKeys)

\* --- operations; each filesystem call is a step that succeeds or fails ---

MaxFaults == 1
MaxOps == 2

ArcOpIdle ==
    [kind |-> "none", via |-> "none", arc |-> Plain(<<>>), sources |-> <<>>,
     todo |-> <<>>, offsets |-> <<>>, currentOffset |-> 0,
     prev |-> NoFile, new |-> Plain(<<>>)]

\* the locals of a finished operation are dead; kind and via stay as record
\* of what it was
ArcOpEnd(op) == [ArcOpIdle EXCEPT !.kind = op.kind, !.via = op.via]

keepSource(entry) == [isFile |-> FALSE, entry |-> entry, fname |-> <<>>]
fileSource(fname) == [isFile |-> TRUE, entry |-> SeenEntry(0, 0), fname |-> fname]

fileExists(fname) == fname \in DOMAIN srcFiles /\ srcFiles[fname].exists

RECURSIVE addSources(_, _)
\* the loop of Add over files: later files override earlier ones and kept
\* entries; files that do not exist or do not match are skipped
addSources(sources, files) ==
    IF files = <<>> THEN sources
    ELSE
      LET fname == Head(files)
          idx == seenIndexOf(BaseName(fname))
      IN  IF ~fileExists(fname) \/ idx < 0
          THEN addSources(sources, Tail(files))
          ELSE addSources(
                 [i \in DOMAIN sources \cup {idx} |->
                     IF i = idx THEN fileSource(fname) ELSE sources[i]],
                 Tail(files))

anyAdded(files) ==
    \E k \in 1..Len(files) :
        fileExists(files[k]) /\ seenIndexOf(BaseName(files[k])) >= 0

\* entry into rebuildArc(arc, arcName, sources, opts)
enterRebuild(kind, arc, sources, prev) ==
    /\ arcOp' = [ArcOpIdle EXCEPT !.kind = kind, !.via = "rebuild", !.arc = arc,
                                  !.sources = sources, !.prev = prev,
                                  !.currentOffset = IndexSize]
    /\ arcPc' = "rbCreate"
    /\ arcRet' = "none"

\* an operation that returns without reaching rebuildArc or writeEmptyArc
returnEarly(kind, ret) ==
    /\ arcOp' = [ArcOpIdle EXCEPT !.kind = kind]
    /\ arcPc' = "idle"
    /\ arcRet' = ret

\* Add(arcName, files, opts) up to its call of rebuildArc
Add(files) ==
    /\ arcPc = "idle"
    /\ Len(arcLog) < MaxOps
    /\ arcLog' = Append(arcLog, [kind |-> "add", arg |-> files])
    /\ UNCHANGED <<tmpFile, srcFiles, arcInit, tmpHandle>>
    /\ IF Len(files) = 0
       THEN returnEarly("add", "error") /\ UNCHANGED <<arcFile, arcFaults>>
       ELSE IF arcFile.exists
       THEN LET data == arcFile.buf
                count == SeenCount(data)
                existing == IF count > 0
                            THEN {i \in NonEmptySlots(data) :
                                     getSubfileInfo(data, i).Length > 0}
                            ELSE {}
                kept == [i \in existing |-> keepSource(getSubfileInfo(data, i))]
            IN  /\ UNCHANGED <<arcFile, arcFaults>>
                /\ IF count < 0 THEN returnEarly("add", "error")
                   ELSE IF ~anyAdded(files) THEN returnEarly("add", "error")
                   ELSE enterRebuild("add", data, addSources(kept, files), arcFile)
       ELSE \/ \* os.Create(arcName) fails
               /\ arcFaults < MaxFaults
               /\ arcFaults' = arcFaults + 1
               /\ returnEarly("add", "error")
               /\ UNCHANGED arcFile
            \/ \* the empty-archive marker is written
               /\ arcFile' = FileOf(Plain(emptyArcMagic))
               /\ UNCHANGED arcFaults
               /\ IF ~anyAdded(files) THEN returnEarly("add", "error")
                  ELSE enterRebuild("add", Plain(<<>>), addSources(<<>>, files),
                                    FileOf(Plain(emptyArcMagic)))
    /\ UNCHANGED notArc

\* Remove(arcName, ranges, opts) up to its call of rebuildArc or writeEmptyArc
Remove(ranges) ==
    /\ arcPc = "idle"
    /\ Len(arcLog) < MaxOps
    /\ arcLog' = Append(arcLog, [kind |-> "remove", arg |-> ranges])
    /\ UNCHANGED <<arcFile, tmpFile, tmpHandle, srcFiles, arcInit, arcFaults>>
    /\ IF ~arcFile.exists \/ SeenCount(arcFile.buf) < 0
       THEN returnEarly("remove", "error")
       ELSE
         LET data == arcFile.buf
             indices == resolveRanges(ranges)
             \* the indices set in toRemove; those of the empty list, every
             \* index, are written as the interval they are
             toRemove == IF Len(ranges) = 0 THEN 0..(MaxSeens - 1)
                         ELSE {indices[k] : k \in 1..Len(indices)}
             present == NonEmptySlots(data)
             remain == present \ toRemove
             sources == [i \in remain |-> keepSource(getSubfileInfo(data, i))]
         IN  IF present \cap toRemove = {} THEN returnEarly("remove", "nil")
             ELSE IF remain = {}
             THEN /\ arcOp' = [ArcOpIdle EXCEPT !.kind = "remove", !.via = "empty"]
                  /\ arcPc' = "weCreate"
                  /\ arcRet' = "none"
             ELSE enterRebuild("remove", data, sources, arcFile)
    /\ UNCHANGED notArc

\* writeEmptyArc: os.Create(arcName)
WeCreate ==
    /\ arcPc = "weCreate"
    /\ \/ /\ arcFile' = FileOf(Plain(<<>>))
          /\ arcPc' = "weWrite"
          /\ UNCHANGED <<arcOp, arcRet, arcFaults>>
       \/ /\ arcFaults < MaxFaults
          /\ arcFaults' = arcFaults + 1
          /\ arcPc' = "idle"
          /\ arcRet' = "error"
          /\ arcOp' = ArcOpEnd(arcOp)
          /\ UNCHANGED arcFile
    /\ UNCHANGED <<tmpFile, srcFiles, arcLog, arcInit, tmpHandle>>
    /\ UNCHANGED notArc

\* writeEmptyArc: f.Write(buf) of IndexSize zero bytes, then the deferred Close
WeWrite ==
    /\ arcPc = "weWrite"
    /\ \/ /\ arcFile' = FileOf(ZeroIndex)
          /\ arcRet' = "nil"
          /\ UNCHANGED arcFaults
       \/ /\ arcFaults < MaxFaults
          /\ arcFaults' = arcFaults + 1
          /\ arcRet' = "error"
          /\ UNCHANGED arcFile
    /\ arcPc' = "idle"
    /\ arcOp' = ArcOpEnd(arcOp)
    /\ UNCHANGED <<tmpFile, srcFiles, arcLog, arcInit, tmpHandle>>
    /\ UNCHANGED notArc

\* --- rebuildArc, one step per filesystem call ---

\* a return that runs no deferred function
rbFailSkipsDefer(ret) ==
    /\ arcPc' = "idle"
    /\ arcRet' = ret

\* return err after the defer is registered: the deferred function runs next
rbFail(ret) ==
    /\ arcPc' = "rbDefer"
    /\ arcRet' = ret

aFault == arcFaults < MaxFaults /\ arcFaults' = arcFaults + 1

\* os.Create(tmpName); on failure rebuildArc returns before the defer
RbCreate ==
    /\ arcPc = "rbCreate"
    /\ \/ /\ tmpFile' = FileOf(Plain(<<>>))
          /\ tmpHandle' = "open"
          /\ arcPc' = "rbReserve"
          /\ UNCHANGED <<arcOp, arcRet, arcFaults>>
       \/ /\ aFault
          /\ arcPc' = "idle"
          /\ arcRet' = "error"
          /\ arcOp' = ArcOpEnd(arcOp)
          /\ tmpHandle' = "none"
          /\ UNCHANGED tmpFile
    /\ UNCHANGED <<arcFile, srcFiles, arcLog, arcInit>>
    /\ UNCHANGED notArc

\* the enumerations of a key set: the orders a range over a Go map can take
Enumerations(S) ==
    {e \in [1..Cardinality(S) -> S] : \A x \in S : \E k \in DOMAIN e : e[k] = x}

\* oc.Write(indexBuf) of zeros, then sortedIndices: the keys of sources in
\* the order the map range yields them, sorted by sort.Ints
RbReserve ==
    /\ arcPc = "rbReserve"
    /\ \/ /\ tmpFile' = FileOf(ZeroIndex)
          /\ \E keys \in Enumerations(DOMAIN arcOp.sources) :
                arcOp' = [arcOp EXCEPT !.todo = SortInts(keys)]
          /\ arcPc' = "rbData"
          /\ UNCHANGED <<arcRet, arcFaults>>
       \/ /\ aFault
          /\ rbFail("error")
          /\ UNCHANGED <<tmpFile, arcOp>>
    /\ UNCHANGED <<arcFile, srcFiles, arcLog, arcInit, tmpHandle>>
    /\ UNCHANGED notArc

\* the data of one source: [ok, panic, data]
sourceData(arc, source) ==
    IF source.isFile THEN readAndCompress(srcFiles[source.fname])
    ELSE IF source.entry.Length > 0
    THEN IF source.entry.Offset < 0
            \/ source.entry.Offset + source.entry.Length > BLen(arc)
         THEN CmpPanic
         ELSE CmpOk(BRead(arc, source.entry.Offset, source.entry.Length))
    ELSE CmpOk(<<>>)

\* one turn of  for _, idx := range sortedIndices
RbData ==
    /\ arcPc = "rbData"
    /\ arcOp.todo # <<>>
    /\ LET idx == Head(arcOp.todo)
           r == sourceData(arcOp.arc, arcOp.sources[idx])
           next == [arcOp EXCEPT !.todo = Tail(@)]
       IN  IF r.panic
           THEN rbFail("panic") /\ UNCHANGED <<tmpFile, arcOp, arcFaults>>
           ELSE IF ~r.ok \/ Len(r.data) = 0
           THEN /\ arcOp' = next
                /\ UNCHANGED <<tmpFile, arcPc, arcRet, arcFaults>>
           ELSE \/ \* oc.Write(data) writes all of data
                   /\ tmpFile' = [tmpFile EXCEPT !.buf.data = @ \o r.data]
                   /\ arcOp' = [next EXCEPT
                        !.offsets = [i \in DOMAIN @ \cup {idx} |->
                            IF i = idx
                            THEN SeenEntry(arcOp.currentOffset, Len(r.data))
                            ELSE @[i]],
                        !.currentOffset = @ + Len(r.data)]
                   /\ UNCHANGED <<arcPc, arcRet, arcFaults>>
                \/ \* oc.Write(data) fails
                   /\ aFault
                   /\ rbFail("error")
                   /\ UNCHANGED <<tmpFile, arcOp>>
    /\ UNCHANGED <<arcFile, srcFiles, arcLog, arcInit, tmpHandle>>
    /\ UNCHANGED notArc

\* the index table: offsets[i] for each slot, the zero entry elsewhere;
\* then oc.Seek(0), oc.Write(indexBuf), oc.Close()
RbIndex ==
    /\ arcPc = "rbData"
    /\ arcOp.todo = <<>>
    /\ \/ /\ tmpFile' = [tmpFile EXCEPT !.buf.index = arcOp.offsets]
          /\ arcOp' = [arcOp EXCEPT
                         !.new = [tmpFile.buf EXCEPT !.index = arcOp.offsets]]
          /\ tmpHandle' = "closed"
          /\ arcPc' = "rbRemoveOld"
          /\ UNCHANGED <<arcRet, arcFaults>>
       \/ /\ aFault
          /\ rbFail("error")
          /\ UNCHANGED <<tmpFile, arcOp, tmpHandle>>
    /\ UNCHANGED <<arcFile, srcFiles, arcLog, arcInit>>
    /\ UNCHANGED notArc

\* os.Remove(arcName); a missing file is not an error
RbRemoveOld ==
    /\ arcPc = "rbRemoveOld"
    /\ \/ /\ arcFile' = NoFile
          /\ arcPc' = "rbRename"
          /\ UNCHANGED <<arcRet, arcFaults>>
       \/ /\ aFault
          /\ arcFile.exists
          /\ rbFail("error")
          /\ UNCHANGED arcFile
    /\ UNCHANGED <<tmpFile, arcOp, srcFiles, arcLog, arcInit, tmpHandle>>
    /\ UNCHANGED notArc

\* os.Rename(tmpName, arcName), then return
RbRename ==
    /\ arcPc = "rbRename"
    /\ \/ /\ arcFile' = tmpFile
          /\ tmpFile' = NoFile
          /\ rbFail("nil")
          /\ UNCHANGED arcFaults
       \/ /\ aFault
          /\ rbFail("error")
          /\ UNCHANGED <<arcFile, tmpFile>>
    /\ UNCHANGED <<arcOp, srcFiles, arcLog, arcInit, tmpHandle>>
    /\ UNCHANGED notArc

\* the deferred function: oc.Close(); os.Remove(tmpName)
RbDefer ==
    /\ arcPc = "rbDefer"
    /\ tmpHandle' = "closed"
    /\ tmpFile' = NoFile
    /\ arcPc' = "idle"
    /\ arcOp' = ArcOpEnd(arcOp)
    /\ UNCHANGED <<arcFile, arcRet, arcFaults, srcFiles, arcLog, arcInit>>
    /\ UNCHANGED notArc

\* --- the files and archives the operations are run on ---

\* a compressed bytecode file (header magic D001): stored as it is
FileCompressed == magicD001 \o LE32(10002)
FileCompressed2 == magicCC01 \o LE32(110002) \o <<7, 7>>
\* an uncompressed bytecode file with a full V2 header: Compress is applied
FileUncompressed == CmpHeader(magicKPRL, 2, 1) \o <<1, 0>>
\* not a bytecode file
FileJunk == <<1, 2, 3, 4, 5, 6, 7, 8, 9>>
\* bytecode by its magic, shorter than a header
FileShort == magicRDRL \o <<0, 0, 0, 0>>

Name0001 == <<"S", "E", "E", "N", "0", "0", "0", "1", ".", "T", "X", "T">>
Name0003 == <<"i", "n", "/", "s", "e", "e", "n", "0", "0", "0", "3", ".", "r", "l">>
NameIntro == <<"i", "n", "t", "r", "o", ".", "t", "x", "t">>
NameNone == <<"S", "E", "E", "N", "0", "0", "0", "7", ".", "T", "X", "T">>

\* the disks: SEEN0001.TXT has any of the contents or does not exist
SrcDisks ==
    { [n \in {Name0001, Name0003, NameIntro} |->
          IF n = Name0001 THEN f
          ELSE IF n = Name0003 THEN FileOf(Plain(FileUncompressed))
          ELSE FileOf(Plain(FileJunk))] :
      f \in {NoFile} \cup {FileOf(Plain(c)) :
                c \in {FileCompressed, FileUncompressed, FileJunk, FileShort}} }

Archive(index, data) == FileOf([hasIndex |-> TRUE, index |-> index, data |-> data])

\* the archives at arcName before the first operation: none, the empty
\* forms, archives whose payloads lie in index order or not, an archive with
\* a slot shorter than the eight bytes IsBytecode reads, and a file that is
\* no archive
InitialArchives ==
    { NoFile,
      FileOf(Plain(emptyArcMagic)),
      FileOf(ZeroIndex),
      Archive((1 :> SeenEntry(IndexSize, 8)), FileCompressed),
      Archive((3 :> SeenEntry(IndexSize, 8)) @@ (5 :> SeenEntry(IndexSize + 8, 10)),
              FileCompressed \o FileCompressed2),
      Archive((3 :> SeenEntry(IndexSize + 10, 8)) @@ (5 :> SeenEntry(IndexSize, 10)),
              FileCompressed2 \o FileCompressed),
      Archive((3 :> SeenEntry(IndexSize + 4, 8)) @@ (5 :> SeenEntry(IndexSize, 4)),
              magicRDRL \o FileCompressed),
      FileOf(Plain(FileJunk)) }

EmptyArchives == {NoFile, FileOf(Plain(emptyArcMagic)), FileOf(ZeroIndex)}

AddInputs ==
    {<<Name0001>>, <<Name0003, Name0001>>, <<NameIntro, NameNone>>, <<>>,
     <<NameIntro>>, <<NameIntro, Name0001>>}
RemoveInputs == {<<1>>, <<5, 3>>, <<3>>, <<>>}

ArcIdle ==
    /\ arcFile = NoFile
    /\ tmpFile = NoFile
    /\ tmpHandle = "none"
    /\ srcFiles = <<>>
    /\ arcPc = "off"
    /\ arcOp = ArcOpIdle
    /\ arcRet = "none"
    /\ arcFaults = 0
    /\ arcLog = <<>>
    /\ arcInit = NoFile

\* --- SeenCount on its own ---

ScSlots == {0, 7, MaxSeens - 1}

ScEntries ==
    { SeenEntry(IndexSize, 8), SeenEntry(IndexSize + 8, 10),
      SeenEntry(IndexSize, 4), SeenEntry(IndexSize - 4, 12),
      SeenEntry(IndexSize + 4, 440), SeenEntry(IndexSize + 8, 100) }

\* the data regions: two payloads back to back; a compiler version followed
\* by a 440-byte payload
ScData ==
    { FileCompressed \o FileCompressed2,
      LE32(10002) \o magicRDRL \o Zeros(436) }

ScBuffers ==
    { [hasIndex |-> TRUE, index |-> [i \in used |-> e[i]], data |-> d] :
        used \in SUBSET ScSlots, e \in [ScSlots -> ScEntries], d \in ScData }
    \cup {Plain(emptyArcMagic), Plain(FileJunk), Plain(<<>>)}

ScIdle ==
    /\ scArr = Plain(<<>>)
    /\ scRet = 0
    /\ scPc = "idle"

ScCall ==
    /\ scPc = "call"
    /\ scRet' = SeenCount(scArr)
    /\ scPc' = "done"
    /\ UNCHANGED scArr
    /\ UNCHANGED notSc

-----------------------------------------------------------------------------
(* Range grammar (archiver.go, ParseRanges)                                *)

\* \d+
IsDigits(t) == Len(t) > 0 /\ \A k \in 1..Len(t) : IsDigit(t[k])

RECURSIVE NumVal(_)
\* the decimal value of a digit string
NumVal(t) ==
    IF t = <<>> THEN 0
    ELSE NumVal(SubSeq(t, 1, Len(t) - 1)) * 10 + DigitVal(t[Len(t)])

\* strconv.Atoi: an optional sign, then digits
Atoi(t) ==
    IF Len(t) > 1 /\ t[1] \in {"+", "-"} /\ IsDigits(Tail(t))
    THEN [ok |-> TRUE, val |-> IF t[1] = "-" THEN -NumVal(Tail(t)) ELSE NumVal(Tail(t))]
    ELSE IF IsDigits(t) THEN [ok |-> TRUE, val |-> NumVal(t)]
    ELSE [ok |-> FALSE, val |-> 0]

RECURSIVE TrimSpace(_)
\* strings.TrimSpace
TrimSpace(t) ==
    IF t = <<>> THEN t
    ELSE IF Head(t) = " " THEN TrimSpace(Tail(t))
    ELSE IF t[Len(t)] = " " THEN TrimSpace(SubSeq(t, 1, Len(t) - 1))
    ELSE t

\* ^(\d+)[-~.](\d+)$ : [ok, start, end]
rangeRe(t) ==
    LET at == {k \in 1..Len(t) :
                 /\ t[k] \in {"-", "~", "."}
                 /\ IsDigits(SubSeq(t, 1, k - 1))
                 /\ IsDigits(SubSeq(t, k + 1, Len(t)))}
    IN  IF at = {} THEN [ok |-> FALSE, start |-> 0, end |-> 0]
        ELSE LET k == CHOOSE x \in at : TRUE
             IN  [ok |-> TRUE, start |-> NumVal(SubSeq(t, 1, k - 1)),
                  end |-> NumVal(SubSeq(t, k + 1, Len(t)))]

\* ^!(\d+)[-~.](\d+)$
negRangeRe(t) ==
    IF Len(t) > 0 /\ t[1] = "!" THEN rangeRe(Tail(t))
    ELSE [ok |-> FALSE, start |-> 0, end |-> 0]

\* ^!(\d+)$
negRe(t) ==
    IF Len(t) > 0 /\ t[1] = "!" /\ IsDigits(Tail(t))
    THEN [ok |-> TRUE, val |-> NumVal(Tail(t))]
    ELSE [ok |-> FALSE, val |-> 0]

\* for i := start; i <= end && i < MaxSeens; i++
rangeIndices(start, end) ==
    LET last == Min(end, MaxSeens - 1)
    IN  IF last < start THEN <<>> ELSE [k \in 1..(last - start + 1) |-> start + k - 1]

SeqToSet(q) == {q[k] : k \in 1..Len(q)}

\* sort.Ints on a result: SortInts, which leaves a sorted slice as it is
sortResult(a) ==
    IF \A k \in 1..(Len(a) - 1) : a[k] <= a[k + 1] THEN a ELSE SortInts(a)

RECURSIVE parseArgs(_, _, _)
\* the loop of ParseRanges over args: [err, result, excluded]
parseArgs(args, result, excluded) ==
    IF args = <<>> THEN [err |-> FALSE, result |-> result, excluded |-> excluded]
    ELSE
      LET arg == TrimSpace(Head(args))
          rest == Tail(args)
      IN  IF arg = <<>> THEN parseArgs(rest, result, excluded)
          ELSE IF negRangeRe(arg).ok
          THEN parseArgs(rest, result,
                 excluded \cup SeqToSet(rangeIndices(negRangeRe(arg).start,
                                                     negRangeRe(arg).end)))
          ELSE IF negRe(arg).ok
          THEN parseArgs(rest, result, excluded \cup {negRe(arg).val})
          ELSE IF rangeRe(arg).ok
          THEN parseArgs(rest,
                 result \o rangeIndices(rangeRe(arg).start, rangeRe(arg).end),
                 excluded)
          ELSE IF Atoi(arg).ok
          THEN parseArgs(rest,
                 IF Atoi(arg).val >= 0 /\ Atoi(arg).val < MaxSeens
                 THEN Append(result, Atoi(arg).val) ELSE result,
                 excluded)
          ELSE [err |-> TRUE, result |-> <<>>, excluded |-> {}]

\* ParseRanges(args): [err, result]; a nil slice is the empty sequence
ParseRanges(args) ==
    IF Len(args) = 0 THEN [err |-> FALSE, result |-> <<>>]
    ELSE
      LET p == parseArgs(args, <<>>, {})
          notExcluded(i) == i \notin p.excluded
          result ==
            IF Len(p.result) = 0 /\ p.excluded # {}
            THEN SelectSeq([k \in 1..MaxSeens |-> k - 1], notExcluded)
            ELSE IF p.excluded # {} THEN SelectSeq(p.result, notExcluded)
            ELSE p.result
      IN  IF p.err THEN [err |-> TRUE, result |-> <<>>]
          ELSE [err |-> FALSE, result |-> sortResult(result)]

MaxArgs == 2

RangeTokens ==
    { <<"3">>, <<"5">>, <<"5", "-", "6">>, <<"3", "~", "5">>, <<"6", ".", "3">>,
      <<"!", "5">>, <<"!", "3", "-", "5">>, <<" ", "5", " ">>,
      <<"1", "0", "0", "0", "0">>, <<"9", "9", "9", "8", "-", "1", "0", "0", "0", "1">>,
      <<"a", "b", "c">>, <<>> }

RangeInputs == UNION {[1..n -> RangeTokens] : n \in 0..MaxArgs}

RgIdle ==
    /\ rgArgs = <<>>
    /\ rgOut = [err |-> FALSE, result |-> <<>>]
    /\ rgPc = "idle"

RgCall ==
    /\ rgPc = "call"
    /\ rgOut' = ParseRanges(rgArgs)
    /\ rgPc' = "done"
    /\ UNCHANGED rgArgs
    /\ UNCHANGED notRg

\* --- the delete action of the command line: ParseRanges, then Remove ---

\* case *actionDelete of main: a malformed token is fatal before the archive
\* is read; otherwise Remove is called with what ParseRanges returned
Delete(tokens) ==
    /\ ~ParseRanges(tokens).err
    /\ Remove(ParseRanges(tokens).result)

\* the range arguments of a delete: at least one (main refuses none)
DeleteInputs ==
    { <<<<"3">>>>, <<<<"5">>, <<"!", "5">>>>, <<<<"1", "0", "0", "0", "0">>>>,
      <<<<"a", "b", "c">>>> }

-----------------------------------------------------------------------------
(* Disassembler (package disasm, in src/Rldev/kprl/pkg/disasm/             *)
(* disasm_test.go).  A Go string is the sequence of its bytes.             *)

\* the printable ASCII characters, 0x20 .. 0x7e; 0x22, 0x5c, 0x60 by name
AsciiChars ==
    << " ", "!", "quote", "#", "$", "%", "&", "'", "(", ")", "*", "+", ",", "-",
       ".", "/", "0", "1", "2", "3", "4", "5", "6", "7", "8", "9", ":", ";",
       "<", "=", ">", "?", "@", "A", "B", "C", "D", "E", "F", "G", "H", "I",
       "J", "K", "L", "M", "N", "O", "P", "Q", "R", "S", "T", "U", "V", "W",
       "X", "Y", "Z", "[", "backslash", "]", "^", "_", "backquote", "a", "b", "c", "d", "e",
       "f", "g", "h", "i", "j", "k", "l", "m", "n", "o", "p", "q", "r", "s",
       "t", "u", "v", "w", "x", "y", "z", "{", "|", "}", "~" >>

\* the byte of a character, the bytes of a string given by its characters
Asc(c) == 31 + (CHOOSE k \in 1..Len(AsciiChars) : AsciiChars[k] = c)
Str(chars) == [k \in 1..Len(chars) |-> Asc(chars[k])]

RECURSIVE natStr(_)
natStr(n) ==
    IF n < 10 THEN <<48 + n>> ELSE Append(natStr(n \div 10), 48 + (n % 10))

\* fmt.Sprintf("%d", v)
IntToStr(v) == IF v < 0 THEN <<45>> \o natStr(-v) ELSE natStr(v)

RECURSIVE padStr(_, _)
\* fmt.Sprintf("%0wd", v) for v >= 0
padStr(t, w) == IF Len(t) >= w THEN t ELSE padStr(<<48>> \o t, w)
Pad(v, w) == padStr(natStr(v), w)

hexDigit(n) == IF n < 10 THEN 48 + n ELSE 87 + n
\* fmt.Sprintf("%02x", b)
Hex2(b) == <<hexDigit(b \div 16), hexDigit(b % 16)>>

RECURSIVE Concat(_)
\* the concatenation of a sequence of strings
Concat(parts) == IF parts = <<>> THEN <<>> ELSE Head(parts) \o Concat(Tail(parts))

RECURSIVE Join(_, _)
\* strings.Join(parts, sep)
Join(parts, sep) ==
    IF parts = <<>> THEN <<>>
    ELSE IF Len(parts) = 1 THEN parts[1]
    ELSE parts[1] \o sep \o Join(Tail(parts), sep)

\* --- Reader: rd = [data, origin, limit, mode], the position is threaded ---

ModeRealLive == 1
ModeAvg2000 == 2

\* Next: [ok, b, pos]
Next(rd, pos) ==
    IF pos >= rd.limit THEN [ok |-> FALSE, b |-> 0, pos |-> pos]
    ELSE [ok |-> TRUE, b |-> At(rd.data, pos), pos |-> pos + 1]

\* Peek: [ok, b]
Peek(rd, pos) ==
    IF pos >= rd.limit THEN [ok |-> FALSE, b |-> 0]
    ELSE [ok |-> TRUE, b |-> At(rd.data, pos)]

\* ReadInt32: [ok, v, pos]
ReadInt32(rd, pos) ==
    IF pos + 4 > rd.limit THEN [ok |-> FALSE, v |-> 0, pos |-> pos]
    ELSE [ok |-> TRUE, v |-> Int32At(rd.data, pos), pos |-> pos + 4]

\* GetInt16 (ReadUint16): [ok, v, pos]
GetInt16(rd, pos) ==
    IF pos + 2 > rd.limit THEN [ok |-> FALSE, v |-> 0, pos |-> pos]
    ELSE [ok |-> TRUE, v |-> Uint16At(rd.data, pos), pos |-> pos + 2]

\* GetIntForMode
GetIntForMode(rd, pos) ==
    IF rd.mode = ModeAvg2000 THEN ReadInt32(rd, pos) ELSE GetInt16(rd, pos)

\* Expect: the byte is consumed whether it matches or not; [ok, pos]
Expect(rd, pos, expected) ==
    LET n == Next(rd, pos)
    IN  [ok |-> n.ok /\ n.b = expected, pos |-> n.pos]

\* a Rollback that does not stop at origin
rollbackUnclamped(rd, pos, n) == pos - n

\* Rollback(n): the new position
Rollback(rd, pos, n) == IF pos - n < rd.origin THEN rd.origin ELSE pos - n

\* v := e, then the statements that follow it, as F
Bind(v, F(_)) == F(v)

\* results of the parsers: [ok, str, pos]
ParseOk(str, pos) == [ok |-> TRUE, str |-> str, pos |-> pos]
ParseErr(pos) == [ok |-> FALSE, str |-> <<>>, pos |-> pos]

condOp(b) ==
    CASE b = 40 -> Str(<<"=", "=">>)
      [] b = 41 -> Str(<<"!", "=">>)
      [] b = 42 -> Str(<<"<", "=">>)
      [] b = 43 -> Str(<<"<">>)
      [] b = 44 -> Str(<<">", "=">>)
      [] b = 45 -> Str(<<">">>)
      [] OTHER -> <<>>

arithOp(b) ==
    CASE b = 0 -> Str(<<"+">>)
      [] b = 1 -> Str(<<"-">>)
      [] b = 2 -> Str(<<"*">>)
      [] b = 3 -> Str(<<"/">>)
      [] b = 4 -> Str(<<"%">>)
      [] b = 5 -> Str(<<"&">>)
      [] b = 6 -> Str(<<"|">>)
      [] b = 7 -> Str(<<"^">>)
      [] b = 8 -> Str(<<"<", "<">>)
      [] b = 9 -> Str(<<">", ">">>)
      [] OTHER -> <<>>

intVarPrefix(varType) ==
    IF varType < 6
    THEN Str(<<"i", "n", "t">>) \o <<65 + varType>>
    ELSE IF varType = 6 THEN Str(<<"i", "n", "t", "G">>)
    ELSE IF varType = 7 THEN Str(<<"i", "n", "t", "Z">>)
    ELSE IF varType = 10 THEN Str(<<"i", "n", "t", "L">>)
    ELSE Str(<<"i", "n", "t", "_">>) \o Hex2(varType)

strVarPrefix(varType) ==
    IF varType = 12 THEN Str(<<"s", "t", "r", "S">>)
    ELSE IF varType = 18 THEN Str(<<"s", "t", "r", "M">>)
    ELSE Str(<<"s", "t", "r", "_">>) \o Hex2(varType)

RECURSIVE getExprBool(_, _)
RECURSIVE getExprBoolLoop(_, _, _)
RECURSIVE getExprCond(_, _)
RECURSIVE getExprArith(_, _)
RECURSIVE getExprArithLoop(_, _, _)
RECURSIVE getExprTerm(_, _)
RECURSIVE readIntVar(_, _)

\* GetExpression
GetExpression(rd, pos) == getExprBool(rd, pos)

\* the for loop of getExprBool, left the expression read so far
getExprBoolLoop(rd, pos, left) ==
    LET p == Peek(rd, pos)
    IN  IF ~p.ok THEN ParseOk(left, pos)
        ELSE IF p.b = 60 \/ p.b = 61
        THEN LET op == IF p.b = 60 THEN Str(<<" ", "&", "&", " ">>)
                       ELSE Str(<<" ", "|", "|", " ">>)
             IN  Bind(getExprCond(rd, pos + 1), LAMBDA right :
                   IF ~right.ok THEN ParseErr(right.pos)
                   ELSE getExprBoolLoop(rd, right.pos, left \o op \o right.str))
        ELSE ParseOk(left, pos)

getExprBool(rd, pos) ==
    Bind(getExprCond(rd, pos), LAMBDA left :
      IF ~left.ok THEN ParseErr(left.pos)
      ELSE getExprBoolLoop(rd, left.pos, left.str))

getExprCond(rd, pos) ==
    Bind(getExprArith(rd, pos), LAMBDA left :
      IF ~left.ok THEN ParseErr(left.pos)
      ELSE
        LET p == Peek(rd, left.pos)
        IN  IF ~p.ok \/ condOp(p.b) = <<>> THEN left
            ELSE Bind(getExprArith(rd, left.pos + 1), LAMBDA right :
                   IF ~right.ok THEN ParseErr(right.pos)
                   ELSE ParseOk(left.str \o <<32>> \o condOp(p.b) \o <<32>>
                                   \o right.str, right.pos)))

\* the for loop of getExprArith
getExprArithLoop(rd, pos, left) ==
    LET p == Peek(rd, pos)
    IN  IF ~p.ok \/ arithOp(p.b) = <<>> THEN ParseOk(left, pos)
        ELSE Bind(getExprTerm(rd, pos + 1), LAMBDA right :
               IF ~right.ok THEN ParseErr(right.pos)
               ELSE getExprArithLoop(rd, right.pos,
                      left \o <<32>> \o arithOp(p.b) \o <<32>> \o right.str))

getExprArith(rd, pos) ==
    Bind(getExprTerm(rd, pos), LAMBDA left :
      IF ~left.ok THEN ParseErr(left.pos)
      ELSE getExprArithLoop(rd, left.pos, left.str))

getExprTerm(rd, pos) ==
    LET n == Next(rd, pos)
    IN  IF ~n.ok THEN ParseErr(pos)
        ELSE IF n.b = 255
        THEN LET v == ReadInt32(rd, n.pos)
             IN  IF ~v.ok THEN ParseErr(v.pos) ELSE ParseOk(IntToStr(v.v), v.pos)
        ELSE IF n.b = 200 THEN ParseOk(Str(<<"s", "t", "o", "r", "e">>), n.pos)
        ELSE IF n.b = 10
        THEN Bind(getExprTerm(rd, n.pos), LAMBDA term :
               IF ~term.ok THEN ParseErr(term.pos)
               ELSE ParseOk(<<45>> \o term.str, term.pos))
        ELSE IF n.b = 11
        THEN Bind(GetExpression(rd, n.pos), LAMBDA expr :
               IF ~expr.ok THEN ParseErr(expr.pos)
               ELSE ParseOk(<<40>> \o expr.str \o <<41>>,
                            Expect(rd, expr.pos, 41).pos))
        ELSE IF n.b >= 20 /\ n.b <= 30
        THEN Bind(getExprTerm(rd, n.pos), LAMBDA term :
               IF ~term.ok THEN ParseErr(term.pos)
               ELSE IF n.b = 20 THEN ParseOk(<<126>> \o term.str, term.pos)
               ELSE ParseOk(Str(<<"o", "p", "_">>) \o Hex2(n.b) \o <<40>>
                               \o term.str \o <<41>>, term.pos))
        ELSE IF n.b = 36 THEN readIntVar(rd, n.pos)
        ELSE ParseErr(Rollback(rd, n.pos, 1))

\* the shared body of readIntVar and readStrVar after the prefix choice
readVarIndex(rd, pos) ==
    LET e == Expect(rd, pos, 91)
        at == IF e.ok THEN e.pos ELSE Rollback(rd, e.pos, 1)
    IN  Bind(GetExpression(rd, at), LAMBDA idx :
          IF ~idx.ok THEN ParseErr(idx.pos)
          ELSE ParseOk(<<91>> \o idx.str \o <<93>>, Expect(rd, idx.pos, 93).pos))

readIntVar(rd, pos) ==
    LET varType == Next(rd, pos)
    IN  IF ~varType.ok THEN ParseErr(pos)
        ELSE Bind(readVarIndex(rd, varType.pos), LAMBDA r :
               IF ~r.ok THEN r
               ELSE ParseOk(intVarPrefix(varType.b) \o r.str, r.pos))

readStrVar(rd, pos) ==
    LET varType == Next(rd, pos)
    IN  IF ~varType.ok THEN ParseErr(pos)
        ELSE Bind(readVarIndex(rd, varType.pos), LAMBDA r :
               IF ~r.ok THEN r
               ELSE ParseOk(strVarPrefix(varType.b) \o r.str, r.pos))

RECURSIVE readLiteral(_, _, _)
\* the loop of readStringData after the opening quote
readLiteral(rd, pos, sb) ==
    LET c == Next(rd, pos)
    IN  IF ~c.ok THEN ParseOk(sb, pos)
        ELSE IF c.b = 34 THEN ParseOk(Append(sb, 34), c.pos)
        ELSE readLiteral(rd, c.pos, Append(sb, c.b))

readStringData(rd, pos) ==
    LET b == Next(rd, pos)
    IN  IF ~b.ok THEN ParseErr(pos)
        ELSE IF b.b = 34 THEN readLiteral(rd, b.pos, <<34>>)
        ELSE IF b.b = 10 THEN readStrVar(rd, b.pos)
        ELSE ParseErr(Rollback(rd, b.pos, 1))

GetData(rd, pos) ==
    LET b == Peek(rd, pos)
    IN  IF ~b.ok THEN ParseErr(pos)
        ELSE IF b.b = 34 \/ b.b = 10 THEN readStringData(rd, pos)
        ELSE GetExpression(rd, pos)

\* --- commands ---

\* Command{Offset: offset}
Command(offset) ==
    [Offset |-> offset, Kepago |-> <<>>, Hidden |-> FALSE, Unhide |-> FALSE,
     IsJmp |-> FALSE, CType |-> "", Opcode |-> <<>>, LineNo |-> 0, ResIdx |-> 0]

\* (*Command).Text
Text(cmd) == Concat(cmd.Kepago)

\* Opcode.String: "%d:%03d:%05d,%d"
OpcodeString(op) ==
    IntToStr(op.Type) \o <<58>> \o Pad(op.Module, 3) \o <<58>>
        \o Pad(op.Function, 5) \o <<44>> \o IntToStr(op.Overload)

\* fmt.Sprintf("%03d", v)
Pad3(v) == IF v < 0 THEN <<45>> \o Pad(-v, 2) ELSE Pad(v, 3)
Pad2(v) == IF v < 0 THEN <<45>> \o Pad(-v, 1) ELSE Pad(v, 2)

\* a faulty result, the reader left one byte before the end of the
\* command; C9 fails with it
stepOneShort(cmds, res, pos) ==
    [err |-> FALSE, cmds |-> cmds, res |-> res, pos |-> pos - 1]

\* what one readCommand did: [err, cmds, res, pos]; cmds and res are the
\* commands and resource strings it appended
Step(cmds, res, pos) == [err |-> FALSE, cmds |-> cmds, res |-> res, pos |-> pos]
StepErr(pos) == [err |-> TRUE, cmds |-> <<>>, res |-> <<>>, pos |-> pos]

RECURSIVE readFuncArgsLoop(_, _, _, _)
\* the for loop and the closing parenthesis of readFuncArgs: [ok, args, pos]
readFuncArgsLoop(rd, pos, left, args) ==
    IF left = 0
    THEN LET b == Peek(rd, pos)
         IN  [ok |-> TRUE, args |-> args,
              pos |-> IF b.ok /\ b.b = 41 THEN pos + 1 ELSE pos]
    ELSE Bind(GetData(rd, pos), LAMBDA arg :
           IF ~arg.ok THEN [ok |-> FALSE, args |-> args, pos |-> arg.pos]
           ELSE readFuncArgsLoop(rd, arg.pos, left - 1, Append(args, arg.str)))

readFuncArgs(rd, pos, argc) ==
    LET b == Peek(rd, pos)
    IN  IF ~b.ok THEN [ok |-> FALSE, args |-> <<>>, pos |-> pos]
        ELSE readFuncArgsLoop(rd, IF b.b = 40 THEN pos + 1 ELSE pos, argc, <<>>)

\* a faulty handleGoto that marks gosub, not goto, as a jump; C10 fails
\* with it
handleGotoFlagSwapped(cmd, op, args) ==
    [cmd EXCEPT
       !.IsJmp = (op.Function = 3),
       !.Kepago = IF Len(args) > 0
                  THEN << <<103, 111, 116, 111>>, <<40>> \o args[1] \o <<41>> >>
                  ELSE << <<103, 111, 116, 111>> >>]

\* handleGoto: the command with its Kepago and IsJmp set
handleGoto(cmd, op, args) ==
    LET name == IF op.Function = 3 THEN Str(<<"g", "o", "s", "u", "b">>)
                ELSE Str(<<"g", "o", "t", "o">>)
    IN  [cmd EXCEPT
           !.IsJmp = (op.Function = 1),
           !.Kepago = IF Len(args) > 0
                      THEN <<name, <<40>> \o args[1] \o <<41>>>>
                      ELSE <<name>>]

\* handleCondGoto
handleCondGoto(cmd, op, args) ==
    LET name == CASE op.Function = 8 ->
                       Str(<<"g", "o", "t", "o", "_", "u", "n", "l", "e", "s", "s">>)
                  [] op.Function = 9 ->
                       Str(<<"g", "o", "s", "u", "b", "_", "i", "f">>)
                  [] op.Function = 16 ->
                       Str(<<"g", "o", "s", "u", "b", "_", "u", "n", "l", "e", "s", "s">>)
                  [] OTHER -> Str(<<"g", "o", "t", "o", "_", "i", "f">>)
    IN  [cmd EXCEPT
           !.Kepago = << name \o (IF Len(args) > 0
                                  THEN <<40>> \o Join(args, <<44, 32>>) \o <<41>>
                                  ELSE <<>>) >>]

\* readFunction(r, result, offset, op, argc, opts)
readFunction(rd, pos, offset, op, argc) ==
    LET cmd == Command(offset)
        opStr == OpcodeString(op)
        opTag == Str(<<"o", "p", "<">>) \o opStr \o <<62>>
    IN  Bind(readFuncArgs(rd, pos, argc), LAMBDA a :
          IF ~a.ok
          THEN Step(<<[cmd EXCEPT !.Kepago = <<opTag \o Str(<<"(", "?", ")">>)>>,
                                  !.Opcode = opStr]>>, <<>>, a.pos)
          ELSE IF op.Module = 1 /\ op.Function \in {1, 3}
          THEN Step(<<handleGoto(cmd, op, a.args)>>, <<>>, a.pos)
          ELSE IF op.Module = 1 /\ op.Function \in {5, 8, 9, 16}
          THEN Step(<<handleCondGoto(cmd, op, a.args)>>, <<>>, a.pos)
          ELSE IF op.Module = 5 /\ op.Function = 1
          THEN Step(<<[cmd EXCEPT !.Kepago = <<Str(<<"r", "e", "t">>)>>,
                                  !.IsJmp = TRUE]>>, <<>>, a.pos)
          ELSE Step(<<[cmd EXCEPT
                         !.Kepago = << opTag \o (IF Len(a.args) > 0
                                       THEN <<40>> \o Join(a.args, <<44, 32>>) \o <<41>>
                                       ELSE <<>>) >>,
                         !.Opcode = opStr]>>, <<>>, a.pos))

assignOp(opByte) ==
    CASE opByte = 20 -> Str(<<"=">>)
      [] opByte = 21 -> Str(<<"+", "=">>)
      [] opByte = 22 -> Str(<<"-", "=">>)
      [] opByte = 23 -> Str(<<"*", "=">>)
      [] opByte = 24 -> Str(<<"/", "=">>)
      [] opByte = 25 -> Str(<<"%", "=">>)
      [] opByte = 26 -> Str(<<"&", "=">>)
      [] opByte = 27 -> Str(<<"|", "=">>)
      [] opByte = 28 -> Str(<<"^", "=">>)
      [] opByte = 29 -> Str(<<"<", "<", "=">>)
      [] opByte = 30 -> Str(<<">", ">", "=">>)
      [] OTHER -> Str(<<"?", "=">>) \o Hex2(opByte) \o Str(<<"=">>)

\* readAssignment(r, result, offset)
readAssignment(rd, pos, offset) ==
    Bind(readIntVar(rd, pos), LAMBDA dest :
      IF ~dest.ok THEN StepErr(dest.pos)
      ELSE
        LET opByte == Next(rd, dest.pos)
            sep == Expect(rd, opByte.pos, 92)
        IN  IF ~opByte.ok THEN StepErr(opByte.pos)
            ELSE Bind(GetExpression(rd, sep.pos), LAMBDA src :
                   LET end == Expect(rd, src.pos, 92)
                       srcStr == IF src.ok THEN src.str ELSE Str(<<"?", "?", "?">>)
                   IN  Step(<<[Command(offset) EXCEPT
                                 !.Kepago = <<dest.str \o <<32>> \o assignOp(opByte.b)
                                                 \o <<32>> \o srcStr>>]>>,
                            <<>>, end.pos)))

\* isShiftJISLead(b)
isShiftJISLead(b) ==
    (b >= 129 /\ b <= 159) \/ (b >= 224 /\ b <= 239) \/ (b >= 240 /\ b <= 252)

\* the bytes that end a text: the first bytes of the other commands
TextEnd == {0, 35, 36, 10, 44, 64, 33}

RECURSIVE rubyLoop(_, _, _)
\* the inner loop of readTextout after 0x04: [text, pos]
rubyLoop(rd, pos, text) ==
    LET c == Next(rd, pos)
    IN  IF ~c.ok THEN [text |-> text, pos |-> pos]
        ELSE IF c.b = 5 THEN rubyLoop(rd, c.pos, text \o <<125, 123>>)
        ELSE IF c.b = 6 THEN [text |-> Append(text, 125), pos |-> c.pos]
        ELSE IF isShiftJISLead(c.b) /\ c.pos < rd.limit
        THEN rubyLoop(rd, c.pos + 1, text \o <<c.b, At(rd.data, c.pos)>>)
        ELSE rubyLoop(rd, c.pos, Append(text, c.b))

RECURSIVE textLoop(_, _, _, _)
\* the loop  for !r.AtEnd()  of readTextout: [text, pos].  The break in the
\* case of 0x03 leaves the switch, and the loop goes on.
textLoop(rd, pos, text, opts) ==
    IF pos >= rd.limit \/ At(rd.data, pos) \in TextEnd
    THEN [text |-> text, pos |-> pos]
    ELSE
      LET b == At(rd.data, pos)
          at == pos + 1
      IN  IF b = 3 THEN textLoop(rd, at, text \o <<92, 112>>, opts)
          ELSE IF b = 4
          THEN Bind(rubyLoop(rd, at, text \o Str(<<"{", "r", "u", "b", "y", " ">>)),
                    LAMBDA r : textLoop(rd, r.pos, r.text, opts))
          ELSE IF b = 1 THEN textLoop(rd, at, text \o <<92, 110>>, opts)
          ELSE IF b = 2 THEN textLoop(rd, at, text \o <<92, 119>>, opts)
          ELSE IF isShiftJISLead(b)
          THEN IF at >= rd.limit THEN textLoop(rd, at, Append(text, b), opts)
               ELSE textLoop(rd, at + 1, text \o <<b, At(rd.data, at)>>, opts)
          ELSE IF b >= 32 /\ b < 128 THEN textLoop(rd, at, Append(text, b), opts)
          ELSE IF opts.ControlCodes
          THEN textLoop(rd, at, text \o <<92, 120, 123>> \o Hex2(b) \o <<125>>, opts)
          ELSE textLoop(rd, at, text, opts)

\* a readTextout that returns at once, the rolled-back byte unread
readTextoutUnread(rd, pos, offset, opts, resCount) == Step(<<>>, <<>>, pos)

\* readTextout(r, result, offset, opts); resCount is len(result.ResStrs)
readTextout(rd, pos, offset, opts, resCount) ==
    LET cmd == [Command(offset) EXCEPT !.CType = "textout", !.ResIdx = resCount]
    IN  Bind(textLoop(rd, pos, <<>>, opts), LAMBDA t :
          IF Len(t.text) = 0 THEN Step(<<>>, <<>>, t.pos)
          ELSE Step(<<[cmd EXCEPT !.Kepago =
                         IF opts.SeparateStrings
                         THEN <<Str(<<"<", "r", "e", "s", "_">>) \o Pad(resCount, 4)
                                   \o <<62>>>>
                         ELSE <<<<39>> \o t.text \o <<39>>>>]>>,
                    <<t.text>>, t.pos))

MinInt32 == -2147483647 - 1

\* a - b in int32 for b in 0..2^31-1: the difference wraps around below
\* MinInt32
subInt32(a, b) ==
    IF a >= MinInt32 + b THEN a - b
    ELSE ((a + 2147483647) + 1) + ((2147483647 - b) + 1)

\* the case '@' / '!' of readCommand after idx is read
kidokuCommand(offset, idx, hdr, opts) ==
    LET kidokuVal == IF idx >= 0 /\ idx < Len(hdr) THEN hdr[idx + 1] ELSE 0
        entryIdx == subInt32(kidokuVal, 1000000)
    IN  IF entryIdx >= 0
        THEN [Command(offset) EXCEPT
                !.Unhide = TRUE, !.CType = "entrypoint",
                !.Kepago = <<Str(<<"#", "e", "n", "t", "r", "y", "p", "o", "i", "n",
                                   "t", " ">>) \o Pad3(entryIdx)
                               \o Str(<<" ", "/", "/", " ", "Z">>) \o Pad2(entryIdx)>>]
        ELSE [Command(offset) EXCEPT
                !.Hidden = ~opts.ReadDebugSymbols, !.CType = "kidoku",
                !.Kepago = <<Str(<<"{", "-", " ", "k", "i", "d", "o", "k", "u", " ">>)
                               \o Pad3(idx) \o Str(<<" ", "-", "}">>)>>]

\* readCommand(r, hdr, result, opts), the reader at pos
readCommand(rd, pos, hdr, opts, resCount) ==
    LET offset == pos - rd.origin
        b == Next(rd, pos)
    IN  IF ~b.ok THEN StepErr(pos)
        ELSE IF b.b = 0
        THEN Step(<<[Command(offset) EXCEPT
                       !.IsJmp = TRUE, !.Kepago = <<Str(<<"h", "a", "l", "t">>)>>]>>,
                  <<>>, b.pos)
        ELSE IF b.b = 35
        THEN LET opType == Next(rd, b.pos)
                 opModule == Next(rd, opType.pos)
                 funcNum == GetInt16(rd, opModule.pos)
                 argc == GetInt16(rd, funcNum.pos)
                 overload == Next(rd, argc.pos)
             IN  IF ~opType.ok THEN StepErr(opType.pos)
                 ELSE IF ~opModule.ok THEN StepErr(opModule.pos)
                 ELSE IF ~funcNum.ok THEN StepErr(funcNum.pos)
                 ELSE IF ~argc.ok THEN StepErr(argc.pos)
                 ELSE IF ~overload.ok THEN StepErr(overload.pos)
                 ELSE readFunction(rd, overload.pos, offset,
                        [Type |-> opType.b, Module |-> opModule.b,
                         Function |-> funcNum.v, Overload |-> overload.b], argc.v)
        ELSE IF b.b = 36 THEN readAssignment(rd, b.pos, offset)
        ELSE IF b.b = 10
        THEN LET lineNum == GetIntForMode(rd, b.pos)
             IN  IF ~lineNum.ok THEN StepErr(lineNum.pos)
                 ELSE Step(<<[Command(offset) EXCEPT
                                !.Hidden = ~opts.ReadDebugSymbols,
                                !.CType = "dbline", !.LineNo = lineNum.v,
                                !.Kepago = <<Str(<<"#", "l", "i", "n", "e", " ">>)
                                               \o IntToStr(lineNum.v)>>]>>,
                           <<>>, lineNum.pos)
        ELSE IF b.b = 44
        THEN Step(<<[Command(offset) EXCEPT
                       !.Hidden = ~opts.ReadDebugSymbols, !.CType = "debug",
                       !.Kepago = <<Str(<<",">>)>>]>>, <<>>, b.pos)
        ELSE IF b.b = 64 \/ b.b = 33
        THEN LET idx == GetIntForMode(rd, b.pos)
             IN  IF ~idx.ok THEN StepErr(idx.pos)
                 ELSE Step(<<kidokuCommand(offset, idx.v, hdr, opts)>>, <<>>, idx.pos)
        ELSE readTextout(rd, Rollback(rd, b.pos, 1), offset, opts, resCount)

\* the offsets that the case '@' / '!' of readCommand appends to
\* result.SeenMap.EntryPoints: the offset of the command when it is an
\* entrypoint
entryPoints(cmds) ==
    IF cmds # <<>> /\ cmds[1].CType = "entrypoint" THEN <<cmds[1].Offset>> ELSE <<>>

\* one turn of the main loop of Disassemble: the test !reader.AtEnd(), then
\* readCommand; an error ends the loop.  No statement of readCommand, or of
\* the functions it calls, stores into result.Pointers: the map stays as
\* Disassemble made it.
DisStep ==
    /\ disPc = "loop"
    /\ IF disPos >= disRd.limit
       THEN /\ disPc' = "done"
            /\ UNCHANGED <<disPos, disResult>>
       ELSE \E r \in {readCommand(disRd, disPos, disHdr, disOpts,
                                    Len(disResult.ResStrs))} :
                /\ disPos' = r.pos
                /\ disResult' = [Commands |-> disResult.Commands \o r.cmds,
                                 ResStrs |-> disResult.ResStrs \o r.res,
                                 Pointers |-> disResult.Pointers,
                                 EntryPoints |-> disResult.EntryPoints
                                                   \o entryPoints(r.cmds),
                                 Error |-> r.err]
                /\ disPc' = IF r.err THEN "done" ELSE "loop"
    /\ UNCHANGED <<disRd, disHdr, disOpts>>
    /\ UNCHANGED notDis

\* --- the bytecode streams: sequences of fragments ---

MaxFrags == 2

\* '#', type, module, function(16), argc(16), overload
FnHeader(type, module, function, argc, overload) ==
    <<35, type, module>> \o LE16(function) \o LE16(argc) \o <<overload>>

StreamFragments ==
    { <<0>>,                                              \* halt
      FnHeader(0, 1, 1, 1, 0) \o <<255>> \o LE32(1000),   \* goto 1000
      <<35, 0, 1, 1, 0, 1, 0, 255, 232, 3, 0, 0>>,        \* the same, no overload byte
      FnHeader(0, 1, 3, 1, 0) \o <<40, 255>> \o LE32(5) \o <<41>>,   \* gosub (5)
      FnHeader(0, 1, 5, 2, 0) \o <<200, 255>> \o LE32(7), \* goto_if
      FnHeader(0, 5, 1, 0, 0),                            \* ret
      FnHeader(1, 4, 10, 1, 2) \o <<34, 65, 34>>,         \* a call with a string
      FnHeader(1, 4, 10, 1, 2) \o <<40, 34, 65, 34, 41>>, \* the same in parentheses
      <<36, 0, 91, 255>> \o LE32(1) \o <<93, 20, 92, 255>> \o LE32(2) \o <<92>>,
      <<36, 0, 91, 255>> \o LE32(1) \o <<93, 20, 255>> \o LE32(2),   \* no 0x5C
      <<36, 0, 255>> \o LE32(1) \o <<93, 20, 92, 255>> \o LE32(2) \o <<92>>, \* no '['
      <<36, 200>>,                                        \* a cut assignment
      <<36, 0, 91, 255>> \o LE32(1) \o <<93, 20>>,         \* one cut after its operator
      <<10, 5, 0>>,                                       \* line number
      <<44>>,                                             \* debug separator
      <<64, 0, 0>>, <<33, 1, 0>>,                         \* kidoku markers
      <<65, 3, 66>>,                                      \* text with a page break
      <<1, 2, 3>>,                                        \* line break, pause, page break
      <<129, 64, 1>>,                                     \* a two-byte character
      <<4, 65, 5, 66, 6>>,                                \* ruby text
      <<31>> }                                            \* a control code

DisStreams ==
    { Concat(fs) : fs \in UNION {[1..n -> StreamFragments] : n \in 0..MaxFrags} }

\* hdr.KidokuLnums: no table, an entrypoint and a line number, an
\* entrypoint and the least int32
DisHeaders == {<<>>, <<1000002, 5>>, <<1000002, MinInt32>>}

DisOptions ==
    [SeparateStrings : BOOLEAN, ControlCodes : BOOLEAN, ReadDebugSymbols : {FALSE}]

DisReaders ==
    { [data |-> d, origin |-> 0, limit |-> Len(d), mode |-> m] :
        d \in DisStreams, m \in {ModeRealLive, ModeAvg2000} }

\* the result as Disassemble makes it before the main loop
EmptyResult ==
    [Commands |-> <<>>, ResStrs |-> <<>>, Pointers |-> {}, EntryPoints |-> <<>>,
     Error |-> FALSE]

DisIdle ==
    /\ disRd = [data |-> <<>>, origin |-> 0, limit |-> 0, mode |-> ModeRealLive]
    /\ disPos = 0
    /\ disHdr = <<>>
    /\ disOpts = [SeparateStrings |-> FALSE, ControlCodes |-> FALSE,
                  ReadDebugSymbols |-> FALSE]
    /\ disResult = EmptyResult
    /\ disPc = "idle"

-----------------------------------------------------------------------------
(* The source writer (disasm writer, WriteSource)                          *)

\* buildLabelMap(pointers): the label number of each pointer offset, its
\* rank in increasing order; the nil map of an empty set has no key either
buildLabelMap(pointers) ==
    [o \in pointers |-> Cardinality({p \in pointers : p <= o})]

\* strings.HasPrefix(s, prefix)
HasPrefix(s, prefix) ==
    Len(s) >= Len(prefix) /\ SubSeq(s, 1, Len(prefix)) = prefix

\* fmt.Sprintf("%08x", v) for v >= 0
Hex8(v) ==
    Hex2((v \div 16777216) % 256) \o Hex2((v \div 65536) % 256)
      \o Hex2((v \div 256) % 256) \o Hex2(v % 256)

RECURSIVE formatElems(_, _)
\* the loop of formatCommand over cmd.Kepago, whose elements are ElemString
formatElems(elems, opts) ==
    IF elems = <<>> THEN <<>>
    ELSE (IF ~opts.ReadDebugSymbols
             /\ HasPrefix(elems[1], Str(<<"#", "l", "i", "n", "e", " ">>))
          THEN <<>> ELSE elems[1])
           \o formatElems(Tail(elems), opts)

\* formatCommand(cmd, labels, opts)
formatCommand(cmd, opts) ==
    LET text == formatElems(cmd.Kepago, opts)
        annotated == IF opts.Annotate
                     THEN <<123, 45>> \o Hex8(cmd.Offset) \o <<45, 125, 32>> \o text
                     ELSE text
    IN  IF text = <<>> THEN <<>>
        ELSE IF opts.ShowOpcodes /\ cmd.Opcode # <<>>
        THEN annotated \o <<32, 47, 47, 32>> \o cmd.Opcode
        ELSE annotated

\* a faulty last statement of the loop of WriteSource, which sets skipping
\* after every jump whatever SuppressUncalled is; C12 fails with it
skipAfterAnyJump(opts, cmd, skipping) == cmd.IsJmp \/ skipping

\* the last statement of the loop of WriteSource: skipping after the command
skipAfter(opts, cmd, skipping) ==
    IF opts.SuppressUncalled /\ cmd.IsJmp THEN TRUE ELSE skipping

\* os.MkdirAll and os.Create of WriteSource: either fails and WriteSource
\* returns the error, or srcFile is created empty.  resFile stays nil, so
\* the character lines go nowhere.
WrOpen ==
    /\ wrPc = "open"
    /\ \E ok \in BOOLEAN : wrPc' = IF ok THEN "loop" ELSE "error"
    /\ wrSrc' = <<>>
    /\ wrSkipping' = FALSE
    /\ wrNext' = 1
    /\ UNCHANGED <<wrResult, wrOpts>>
    /\ UNCHANGED notWr

\* one turn of  for _, cmd := range result.Commands
WrCommand ==
    /\ wrPc = "loop"
    /\ wrNext <= Len(wrResult.Commands)
    /\ LET cmd == wrResult.Commands[wrNext]
           labels == buildLabelMap(wrResult.Pointers)
           labelled == cmd.Offset \in DOMAIN labels
           label == IF labelled
                    THEN <<[cmd |-> wrNext,
                            text |-> <<10, 32, 32, 64>> \o IntToStr(labels[cmd.Offset])
                                       \o <<10>>]>>
                    ELSE <<>>
           skip == IF labelled \/ cmd.Unhide THEN FALSE ELSE wrSkipping
           line == formatCommand(cmd, wrOpts)
       IN  /\ wrSrc' = wrSrc \o label
                         \o (IF ~skip /\ ~cmd.Hidden /\ line # <<>>
                             THEN <<[cmd |-> wrNext,
                                     text |-> <<32, 32, 32, 32>> \o line \o <<10>>]>>
                             ELSE <<>>)
           /\ wrSkipping' = skipAfter(wrOpts, cmd, skip)
    /\ wrNext' = wrNext + 1
    /\ UNCHANGED <<wrResult, wrOpts, wrPc>>
    /\ UNCHANGED notWr

\* the end of the loop: the resource strings go to the nil resFile, and
\* WriteSource returns nil
WrReturn ==
    /\ wrPc = "loop"
    /\ wrNext > Len(wrResult.Commands)
    /\ wrPc' = "nil"
    /\ UNCHANGED <<wrResult, wrOpts, wrNext, wrSkipping, wrSrc>>
    /\ UNCHANGED notWr

\* --- the results handed to WriteSource ---

MaxWrCmds == 3

\* the offsets that pointer sets are made of; the last is no command's
WrOffsets == {0, 4, 8, 12}

\* the commands of a list, by kind; the k-th command is at offset 4 (k - 1)
WrKinds ==
    { [Command(0) EXCEPT !.Kepago = <<Str(<<"g", "o", "t", "o">>), Str(<<"(", "8", ")">>)>>,
                         !.IsJmp = TRUE],
      [Command(0) EXCEPT !.Kepago = <<Str(<<"o", "p", "<", "1", ">">>)>>,
                         !.Opcode = Str(<<"1">>)],
      [Command(0) EXCEPT !.Kepago = <<Str(<<"#", "e", "n", "t", "r", "y">>)>>,
                         !.Unhide = TRUE, !.CType = "entrypoint"],
      [Command(0) EXCEPT !.Kepago = <<Str(<<",">>)>>, !.Hidden = TRUE,
                         !.CType = "debug"],
      [Command(0) EXCEPT !.Kepago = <<Str(<<"#", "l", "i", "n", "e", " ", "5">>)>>,
                         !.CType = "dbline", !.LineNo = 5],
      [Command(0) EXCEPT !.Kepago = <<Str(<<"r", "e", "t">>)>>, !.IsJmp = TRUE,
                         !.Unhide = TRUE] }

WrCommandLists ==
    { [k \in DOMAIN f |-> [f[k] EXCEPT !.Offset = 4 * (k - 1)]] :
        f \in UNION {[1..n -> WrKinds] : n \in 0..MaxWrCmds} }

WrResults ==
    { [Commands |-> cs, Pointers |-> ps] :
        cs \in WrCommandLists, ps \in {p \in SUBSET WrOffsets : Cardinality(p) <= 2} }

WrOptions ==
    [SuppressUncalled : BOOLEAN, ReadDebugSymbols : BOOLEAN, Annotate : {FALSE},
     ShowOpcodes : {TRUE}]

WrIdle ==
    /\ wrResult = [Commands |-> <<>>, Pointers |-> {}]
    /\ wrOpts = [SuppressUncalled |-> FALSE, ReadDebugSymbols |-> FALSE,
                 Annotate |-> FALSE, ShowOpcodes |-> FALSE]
    /\ wrNext = 1
    /\ wrSkipping = FALSE
    /\ wrSrc = <<>>
    /\ wrPc = "idle"

-----------------------------------------------------------------------------
(* The full header (types.go, ReadFullHeader).  A result is                *)
(* [hdr, EntryPoints, KidokuLnums, DramatisPersonae], hdr as ReadFileHeader *)
(* gives it: hdr.ok = FALSE with hdr.panic = FALSE is a returned error,    *)
(* hdr.panic = TRUE a slice index out of range or a negative make length.  *)
(* The slice arr.Data has no capacity beyond its length.                   *)

\* a FileHeader value with the tables Go gives it: the zero array and nil
FileHeader(hdr) ==
    [hdr |-> hdr, EntryPoints |-> Zeros(100), KidokuLnums |-> <<>>,
     DramatisPersonae |-> <<>>]

\* GetInt(idx) does not leave the slice
GetIntOk(arr, idx) == idx >= 0 /\ idx <= Len(arr) - 4

\* the 100 reads  hdr.EntryPoints[i] = arr.GetInt(base + i*4)
readEntryPoints(arr, base) == [i \in 1..100 |-> Int32At(arr, base + (i - 1) * 4)]

\* the loop  hdr.KidokuLnums[i] = arr.GetInt32(base + i*4): the count reads
\* stay in the slice
kidokuOk(arr, base, count) ==
    count = 0 \/ (base >= 0 /\ base <= Len(arr) - 4
                  /\ count - 1 <= (Len(arr) - 4 - base) \div 4)

readKidoku(arr, base, count) == [i \in 1..count |-> Int32At(arr, base + (i - 1) * 4)]

\* ReadSz(idx, length), the slice bounds holding: the bytes before the
\* first zero
ReadSz(arr, idx, length) ==
    LET data == Slice(arr, idx, idx + length)
        zeros == {i \in 1..length : data[i] = 0}
    IN  IF zeros = {} THEN data
        ELSE SubSeq(data, 1, (CHOOSE i \in zeros : \A j \in zeros : i <= j) - 1)

RECURSIVE readDramatis(_, _, _, _)
\* the loop over the character names: [ok, names]
readDramatis(arr, offset, left, names) ==
    IF left = 0 THEN [ok |-> TRUE, names |-> names]
    ELSE IF ~GetIntOk(arr, offset) THEN [ok |-> FALSE, names |-> names]
    ELSE LET nameLen == Int32At(arr, offset)
         IN  IF nameLen < 0 \/ nameLen > Len(arr) - 4 - offset
             THEN [ok |-> FALSE, names |-> names]
             ELSE readDramatis(arr, offset + 4 + nameLen, left - 1,
                               Append(names, ReadSz(arr, offset + 4, nameLen)))

\* ReadFullHeader(arr, archived)
ReadFullHeader(arr, archived) ==
    LET hdr == ReadFileHeader(arr, archived)
        panic == FileHeader(HeaderPanic)
    IN  IF ~hdr.ok THEN FileHeader(hdr)
        ELSE IF hdr.HeaderVersion = HeaderV1
        THEN LET count == Int32At(arr, 32)
             IN  IF Len(arr) < 48 + 400 THEN panic
                 ELSE IF count < 0 \/ ~kidokuOk(arr, 460, count) THEN panic
                 ELSE [hdr |-> hdr,
                       EntryPoints |-> readEntryPoints(arr, 48),
                       KidokuLnums |-> readKidoku(arr, 460, count),
                       DramatisPersonae |-> <<>>]
        ELSE IF hdr.HeaderVersion = HeaderV2
        THEN IF Len(arr) < 52 + 400 THEN panic
             ELSE
               LET t1Offset == Int32At(arr, 8)
                   count == Int32At(arr, 12)
                   dpOffset == Int32At(arr, 20)
                   dpCount == Int32At(arr, 24)
               IN  IF count < 0 \/ ~kidokuOk(arr, t1Offset, count) THEN panic
                   ELSE IF dpCount < 0 THEN panic
                   ELSE Bind(readDramatis(arr, dpOffset, dpCount, <<>>), LAMBDA dp :
                          IF ~dp.ok THEN panic
                          ELSE [hdr |-> hdr,
                                EntryPoints |-> readEntryPoints(arr, 52),
                                KidokuLnums |-> readKidoku(arr, t1Offset, count),
                                DramatisPersonae |-> dp.names])
        ELSE FileHeader(hdr)

\* a call of ReadFileHeader(arr, false)
HdReadFile ==
    /\ hdPc = "call"
    /\ hdRet' = FileHeader(ReadFileHeader(hdArr, FALSE))
    /\ hdPc' = "file"
    /\ UNCHANGED hdArr
    /\ UNCHANGED notHd

\* a call of ReadFullHeader(arr, true), as Disassemble makes it
HdReadFull ==
    /\ hdPc = "call"
    /\ hdRet' = ReadFullHeader(hdArr, TRUE)
    /\ hdPc' = "full"
    /\ UNCHANGED hdArr
    /\ UNCHANGED notHd

\* --- the buffers: a header with its tables, cut at several lengths ---

HdMagics ==
    {magicKP2K, magicRD2K, magicKPRL, magicRDRL, magicKPRM, magicRDRM,
     magicD001, magicCC01, magicB801, <<83, 69, 69, 78>>}

\* the whole file: magic, compiler version, the kidoku table of kid entries
\* at 460 (its offset at 0x08, its count at 0x0c and, for a V1 header, at
\* 0x20), dp character names at 468 (offset at 0x14, count at 0x18), each
\* the name A in a field of two bytes
HdFile(magic, ver, kid, dp) ==
    magic \o LE32(ver) \o LE32(460) \o LE32(kid) \o Zeros(4) \o LE32(468)
      \o LE32(dp) \o Zeros(4) \o LE32(kid) \o LE32(300) \o Zeros(420)
      \o LE32(1000002) \o LE32(5) \o LE32(2) \o <<65, 0>>

HdLengths == {0, 7, 8, 44, 48, 452, 464, 468, 474}

HdBuffers ==
    { SubSeq(HdFile(magic, ver, kid, dp), 1, n) :
        magic \in HdMagics, ver \in {10002, 110002, 7}, kid \in {0, 2},
        dp \in {0, 1}, n \in HdLengths }

HdIdle ==
    /\ hdArr = <<>>
    /\ hdRet = FileHeader(HeaderError)
    /\ hdPc = "idle"

-----------------------------------------------------------------------------
(* Siglus scene strings (src/unnamed/part_005, package siglus).  A Go      *)
(* string of valid UTF-8 is the sequence of its runes.  Results are        *)
(* [ok, panic, ...]: ok = FALSE with panic = FALSE is a returned error,    *)
(* panic = TRUE a slice index out of range.                                *)

ssHeaderSize == 132

\* a ^ b on uint16
Xor16(a, b) == XorBits(a, b, 16)

\* uint16(index * 0x7087)
ssKey(index) == (index * 28807) % 65536

RECURSIVE utf16Encode(_)
\* utf16.Encode(runes)
utf16Encode(runes) ==
    IF runes = <<>> THEN <<>>
    ELSE LET r == Head(runes)
         IN  (IF r >= 65536 /\ r <= 1114111
              THEN <<55296 + ((r - 65536) \div 1024), 56320 + ((r - 65536) % 1024)>>
              ELSE IF r < 0 \/ r > 1114111 \/ (r >= 55296 /\ r <= 57343)
              THEN <<65533>>
              ELSE <<r>>) \o utf16Encode(Tail(runes))

RECURSIVE utf16Decode(_)
\* utf16.Decode(units)
utf16Decode(units) ==
    IF units = <<>> THEN <<>>
    ELSE LET u == Head(units)
         IN  IF u >= 55296 /\ u <= 56319 /\ Len(units) > 1
                /\ units[2] >= 56320 /\ units[2] <= 57343
             THEN <<65536 + (u - 55296) * 1024 + (units[2] - 56320)>>
                    \o utf16Decode(Tail(Tail(units)))
             ELSE IF u >= 55296 /\ u <= 57343
             THEN <<65533>> \o utf16Decode(Tail(units))
             ELSE <<u>> \o utf16Decode(Tail(units))

\* encryptString(s, index)
encryptString(s, index) ==
    LET u16 == utf16Encode(s)
    IN  [j \in 1..Len(u16) |-> Xor16(u16[j], ssKey(index))]

\* the pair i of readSSHeader(buf): 1 is StrIndex, 2 is StrTable
ssPair(buf, i) ==
    [Offset |-> Int32At(buf, 4 + i * 8), Size |-> Int32At(buf, 4 + i * 8 + 4)]

\* the bytes of a []uint16, each by PutUint16
u16Bytes(u16) == [p \in 1..(2 * Len(u16)) |->
                    IF p % 2 = 1 THEN u16[(p + 1) \div 2] % 256
                    ELSE u16[p \div 2] \div 256]

\* the reads  u16[j] = Uint16(buf[off+j*2:])  for j < size
readU16(buf, off, size) == [j \in 1..size |-> Uint16At(buf, off + (j - 1) * 2)]

\* those reads stay in the slice
readU16Ok(buf, off, size) ==
    size = 0 \/ (off >= 0 /\ size > 0 /\ off + size * 2 <= Len(buf))

SsError == [ok |-> FALSE, panic |-> FALSE]
SsPanic == [ok |-> FALSE, panic |-> TRUE]

RECURSIVE dumpLoop(_, _, _)
\* the loop of DumpSS from the string i on: [ok, panic, lines]
dumpLoop(buf, i, lines) ==
    LET idx == ssPair(buf, 1)
        entryOff == idx.Offset + i * 8
        strCharOffset == Int32At(buf, entryOff)
        strCharSize == Int32At(buf, entryOff + 4)
        byteOffset == ssPair(buf, 2).Offset + strCharOffset * 2
    IN  IF i >= idx.Size THEN [ok |-> TRUE, panic |-> FALSE, lines |-> lines]
        ELSE IF entryOff < 0 THEN SsPanic @@ [lines |-> <<>>]
        ELSE IF strCharSize = 0 THEN dumpLoop(buf, i + 1, Append(lines, <<>>))
        ELSE IF byteOffset + strCharSize * 2 > Len(buf)
        THEN SsError @@ [lines |-> <<>>]
        ELSE IF strCharSize < 0 \/ byteOffset < 0 THEN SsPanic @@ [lines |-> <<>>]
        ELSE dumpLoop(buf, i + 1,
               Append(lines,
                 utf16Decode([j \in 1..strCharSize |->
                    Xor16(readU16(buf, byteOffset, strCharSize)[j], ssKey(i))])))

\* DumpSS(ssPath), the file read: [ok, panic, lines], lines[i + 1] the text
\* of the string i
DumpSS(buf) ==
    IF Len(buf) < ssHeaderSize THEN SsError @@ [lines |-> <<>>]
    ELSE IF ssPair(buf, 1).Offset + ssPair(buf, 1).Size * 8 > Len(buf)
    THEN SsError @@ [lines |-> <<>>]
    ELSE dumpLoop(buf, 0, <<>>)

\* the map translations of InjectSS: the rows with a third field, a later
\* row replacing an earlier one of the same index
translationsOf(rows) ==
    LET used == {k \in 1..Len(rows) : rows[k].tr # <<>>}
        last(i) == CHOOSE k \in used :
                      rows[k].idx = i /\ \A m \in used : rows[m].idx = i => m <= k
    IN  [i \in {rows[k].idx : k \in used} |-> rows[last(i)].tr]

\* PutUint32(buf[off:], v) on a result [ok, data]
put32(r, off, v) ==
    IF ~r.ok \/ off < 0 \/ off + 4 > Len(r.data) THEN [ok |-> FALSE, data |-> <<>>]
    ELSE [ok |-> TRUE, data |-> CopyInto(r.data, off, LE32(v))]

RECURSIVE adjustHeaderOffsets(_, _, _, _)
\* adjustHeaderOffsets(buf, threshold, delta), from the pair i on
adjustHeaderOffsets(r, i, threshold, delta) ==
    IF i = 16 \/ ~r.ok THEN r
    ELSE IF 4 + i * 8 + 4 > Len(r.data) THEN [ok |-> FALSE, data |-> <<>>]
    ELSE LET v == Int32At(r.data, 4 + i * 8)
         IN  adjustHeaderOffsets(
               IF v > threshold THEN put32(r, 4 + i * 8, v + delta) ELSE r,
               i + 1, threshold, delta)

RECURSIVE writeIndex(_, _, _, _)
\* the loop of rebuildSS that stores newEntries in out, from the entry i on
writeIndex(r, idxOffset, newEntries, i) ==
    IF i > Len(newEntries) \/ ~r.ok THEN r
    ELSE writeIndex(put32(put32(r, idxOffset + (i - 1) * 8, newEntries[i].charOffset),
                          idxOffset + (i - 1) * 8 + 4, newEntries[i].charSize),
                    idxOffset, newEntries, i + 1)

\* rebuildSS(orig, hdr, newEntries, newTbl, outputPath): [ok, data], the
\* bytes handed to os.WriteFile
rebuildSS(orig, newEntries, newTbl) ==
    LET tblOffset == ssPair(orig, 2).Offset
        idxOffset == ssPair(orig, 1).Offset
        oldTblSize == ssPair(orig, 2).Size * 2
        diff == Len(newTbl) - oldTblSize
        afterOld == tblOffset + oldTblSize
    IN  IF tblOffset < 0 \/ tblOffset > Len(orig) \/ afterOld < 0 \/ afterOld > Len(orig)
        THEN [ok |-> FALSE, data |-> <<>>]
        ELSE
          LET out == [ok |-> TRUE, data |-> Slice(orig, 0, tblOffset) \o newTbl]
              suffix == Slice(orig, afterOld, Len(orig))
              shifted == IF diff # 0
                         THEN adjustHeaderOffsets(put32(out, 4 + 2 * 8 + 4,
                                                        Len(newTbl) \div 2),
                                                  0, tblOffset, diff)
                         ELSE out
          IN  Bind(writeIndex(shifted, idxOffset, newEntries, 1), LAMBDA w :
                IF ~w.ok THEN w ELSE [ok |-> TRUE, data |-> w.data \o suffix])

\* entries[i] of InjectSS, i from 0
ssEntry(buf, i) ==
    [charOffset |-> Int32At(buf, ssPair(buf, 1).Offset + i * 8),
     charSize |-> Int32At(buf, ssPair(buf, 1).Offset + i * 8 + 4)]

RECURSIVE rebuildTable(_, _, _, _, _)
\* the loop of InjectSS that rebuilds the table, from the string i on:
\* [ok, entries, tbl]
rebuildTable(buf, trans, i, entries, tbl) ==
    IF i >= ssPair(buf, 1).Size THEN [ok |-> TRUE, entries |-> entries, tbl |-> tbl]
    ELSE LET e == ssEntry(buf, i)
             origOff == ssPair(buf, 2).Offset + e.charOffset * 2
         IN  IF i \notin DOMAIN trans /\ ~readU16Ok(buf, origOff, e.charSize)
             THEN [ok |-> FALSE, entries |-> entries, tbl |-> tbl]
             ELSE LET u16 == IF i \in DOMAIN trans THEN encryptString(trans[i], i)
                             ELSE readU16(buf, origOff, e.charSize)
                  IN  rebuildTable(buf, trans, i + 1,
                        Append(entries, [charOffset |-> Len(tbl) \div 2,
                                         charSize |-> Len(u16)]),
                        tbl \o u16Bytes(u16))

RECURSIVE patchInPlace(_, _, _)
\* the loop of InjectSS that patches buf, over the indices left in todo
patchInPlace(r, trans, todo) ==
    IF todo = {} \/ ~r.ok THEN r
    ELSE LET i == CHOOSE x \in todo : TRUE
             bytes == u16Bytes(encryptString(trans[i], i))
             byteOff == ssPair(r.data, 2).Offset + ssEntry(r.data, i).charOffset * 2
         IN  patchInPlace(
               IF bytes = <<>> THEN r
               ELSE IF byteOff < 0 \/ byteOff + Len(bytes) > Len(r.data)
               THEN [ok |-> FALSE, data |-> <<>>]
               ELSE [ok |-> TRUE, data |-> CopyInto(r.data, byteOff, bytes)],
               trans, todo \ {i})

\* InjectSS(ssPath, tsvPath, outputPath), the two files read: [ok, panic,
\* data], data the bytes handed to os.WriteFile
InjectSS(buf, rows) ==
    LET trans == translationsOf(rows)
        idxOffset == ssPair(buf, 1).Offset
        idxCount == ssPair(buf, 1).Size
        tblOffset == ssPair(buf, 2).Offset
        tblSize == ssPair(buf, 2).Size * 2
        inRange == {i \in DOMAIN trans : i < idxCount}
        needRebuild == \E i \in inRange :
                          Len(encryptString(trans[i], i)) # ssEntry(buf, i).charSize
    IN  IF DOMAIN trans = {} THEN SsError @@ [data |-> <<>>]
        ELSE IF Len(buf) < ssHeaderSize THEN SsPanic @@ [data |-> <<>>]
        ELSE IF idxCount < 0 \/ idxOffset < 0
                \/ (idxCount > 0 /\ idxOffset + idxCount * 8 > Len(buf))
        THEN SsPanic @@ [data |-> <<>>]
        ELSE IF tblSize < 0 \/ tblOffset < 0 \/ tblOffset + tblSize > Len(buf)
        THEN SsPanic @@ [data |-> <<>>]
        ELSE IF needRebuild
        THEN Bind(rebuildTable(buf, trans, 0, <<>>, <<>>), LAMBDA t :
               IF ~t.ok THEN SsPanic @@ [data |-> <<>>]
               ELSE Bind(rebuildSS(buf, t.entries, t.tbl), LAMBDA r :
                      IF ~r.ok THEN SsPanic @@ [data |-> <<>>]
                      ELSE [ok |-> TRUE, panic |-> FALSE, data |-> r.data]))
        ELSE Bind(patchInPlace([ok |-> TRUE, data |-> buf], trans, inRange), LAMBDA r :
               IF ~r.ok THEN SsPanic @@ [data |-> <<>>]
               ELSE [ok |-> TRUE, panic |-> FALSE, data |-> r.data])

\* InjectSS: the output file is written, or os.WriteFile fails and InjectSS
\* returns its error
SsInject ==
    /\ ssPc = "inject"
    /\ \E written \in BOOLEAN :
         \E r \in {InjectSS(ssBuf, ssRows)} :
            ssOut' = IF r.ok /\ ~written THEN SsError @@ [data |-> <<>>] ELSE r
    /\ ssPc' = "injected"
    /\ UNCHANGED <<ssBuf, ssRows, ssDump>>
    /\ UNCHANGED notSs

\* DumpSS of the file InjectSS wrote
SsDumpOutput ==
    /\ ssPc = "injected"
    /\ ssOut.ok
    /\ ssDump' = DumpSS(ssOut.data)
    /\ ssPc' = "dumped"
    /\ UNCHANGED <<ssBuf, ssRows, ssOut>>
    /\ UNCHANGED notSs

\* --- the scene files and the translations ---

MaxSsStrings == 2

\* the texts of the strings: none, A, BC, and U+1F600, two units long
SsTexts == {<<>>, <<65>>, <<66, 67>>, <<128512>>}

\* the third fields of the rows: none, a, bc, U+1F600 and ten letters
SsTranslations ==
    {<<>>, <<97>>, <<98, 99>>, <<128512>>, [j \in 1..10 |-> 96 + j]}

RECURSIVE ssTable(_, _)
\* the string table of the texts from the string i on, one after another
ssTable(texts, i) ==
    IF i >= Len(texts) THEN <<>>
    ELSE u16Bytes(encryptString(texts[i + 1], i)) \o ssTable(texts, i + 1)

RECURSIVE ssIndex(_, _, _)
\* the string index of those texts, the string i at the character at
ssIndex(texts, i, at) ==
    IF i >= Len(texts) THEN <<>>
    ELSE LET n == Len(utf16Encode(texts[i + 1]))
         IN  LE32(at) \o LE32(n) \o ssIndex(texts, i + 1, at + n)

\* a scene file: the header, then the string index and the string table in
\* either order, then two bytes of bytecode
SsFile(texts, indexFirst) ==
    LET index == ssIndex(texts, 0, 0)
        table == ssTable(texts, 0)
        idxOffset == IF indexFirst THEN ssHeaderSize ELSE ssHeaderSize + Len(table)
        tblOffset == IF indexFirst THEN ssHeaderSize + Len(index) ELSE ssHeaderSize
        codeOffset == ssHeaderSize + Len(index) + Len(table)
    IN  LE32(ssHeaderSize) \o LE32(codeOffset) \o LE32(2)
          \o LE32(idxOffset) \o LE32(Len(texts))
          \o LE32(tblOffset) \o LE32(Len(table) \div 2)
          \o Zeros(13 * 8)
          \o (IF indexFirst THEN index \o table ELSE table \o index)
          \o <<1, 2>>

SsFiles ==
    { SsFile(texts, indexFirst) :
        texts \in UNION {[1..n -> SsTexts] : n \in 1..MaxSsStrings},
        indexFirst \in BOOLEAN }

SsRowSet == [idx : 0..MaxSsStrings, tr : SsTranslations]

SsRows == UNION {[1..n -> SsRowSet] : n \in 0..2}

SsIdle ==
    /\ ssBuf = <<>>
    /\ ssRows = <<>>
    /\ ssOut = SsError @@ [data |-> <<>>]
    /\ ssDump = SsError @@ [lines |-> <<>>]
    /\ ssPc = "idle"

-----------------------------------------------------------------------------
(* Siglus Scene.pck (src/unnamed/part_000, package siglus).  File names    *)
(* are character sequences; a directory is a function from the names of   *)
(* its files to their contents.  The table key2 of decrypt is declared in  *)
(* a file that is not among the sources, so the decrypted bytes of a scene *)
(* are not computed: a scene written to disk has the contents SceneData,   *)
(* and Decompress of a frame of 8 bytes or more either returns or runs     *)
(* past its input.                                                         *)

pckHeaderSize == 92

\* sectionNames
sectionNames ==
    << Str(<<"t", "a", "b", "l", "e", "1">>), Str(<<"g", "v", "a", "r">>),
       Str(<<"g", "v", "a", "r", "s", "t", "r">>), Str(<<"n", "a", "m", "e", "1">>),
       Str(<<"n", "a", "m", "e", "2">>), Str(<<"n", "a", "m", "e", "3">>),
       Str(<<"n", "a", "m", "e", "4">>), Str(<<"f", "n", "a", "m", "e">>) >>

binExt == Str(<<".", "b", "i", "n">>)
ssExt == Str(<<".", "s", "s">>)

\* the decompressed scene that ExtractPCK writes
SceneData == <<83>>

\* the pair i of readHeader(buf, hdr), i from 0: Table1, GlobalVar,
\* GlobalVarStr, Name1, Name2, Name3, Name4, FnameStr, FileToc, Data
pckPair(buf, i) ==
    [Offset |-> Int32At(buf, 4 + i * 8), Size |-> Int32At(buf, 4 + i * 8 + 4)]

\* utf16LEToString(b)
utf16LEToString(b) ==
    LET u16 == [i \in 1..(Len(b) \div 2) |-> Uint16At(b, (i - 1) * 2)]
        nulls == {i \in 1..Len(u16) : u16[i] = 0}
    IN  utf16Decode(IF nulls = {} THEN u16
                    ELSE SubSeq(u16, 1, (CHOOSE i \in nulls :
                                           \A j \in nulls : i <= j) - 1))

\* os.WriteFile(name, data) in the directory dir, unless it is the write
\* that fails: [ok, dir]
writeFile(dir, name, data, fault) ==
    IF name = fault THEN [ok |-> FALSE, dir |-> dir]
    ELSE [ok |-> TRUE,
          dir |-> [n \in DOMAIN dir \cup {name} |-> IF n = name THEN data ELSE dir[n]]]

\* dumpSection(outputDir, name, buf, cur, next): the directory after it;
\* its error is printed as a warning and dropped
dumpSection(dir, name, buf, cur, next, fault) ==
    LET start == cur.Offset
        end == Min(next.Offset, Len(buf))
    IN  IF start > Len(buf) \/ start >= end THEN dir
        ELSE writeFile(dir, name \o binExt, LE32(cur.Size) \o Slice(buf, start, end),
                       fault).dir

RECURSIVE dumpSections(_, _, _, _)
\* the loop of ExtractPCK over sectionNames, from the section i on (i from 1)
dumpSections(dir, buf, i, fault) ==
    IF i > Len(sectionNames) THEN dir
    ELSE dumpSections(dumpSection(dir, sectionNames[i], buf, pckPair(buf, i - 1),
                                  pckPair(buf, i), fault),
                      buf, i + 1, fault)

\* the start offset of a section is negative: buf[start:end] panics
sectionPanics(buf) ==
    \E i \in 0..7 :
        pckPair(buf, i).Offset < 0
          /\ pckPair(buf, i).Offset < Min(pckPair(buf, i + 1).Offset, Len(buf))

RECURSIVE extractFiles(_, _, _, _, _)
\* the loop of ExtractPCK over the files, from the file i on: the set of
\* the outcomes [ret, dir] that the scene data allows
extractFiles(dir, buf, i, fault, decompressed) ==
    LET tocEntry == pckPair(buf, 8).Offset + i * 8
        nameIdx == pckPair(buf, 6).Offset + i * 8
        fileOffset == Int32At(buf, tocEntry)
        fileSize == Int32At(buf, tocEntry + 4)
        nameByteOffset == pckPair(buf, 7).Offset + Int32At(buf, nameIdx) * 2
        nameByteSize == Int32At(buf, nameIdx + 4) * 2
        dataStart == pckPair(buf, 9).Offset + fileOffset
        fname == utf16LEToString(Slice(buf, nameByteOffset, nameByteOffset + nameByteSize))
    IN  IF i >= pckPair(buf, 8).Size THEN [ret |-> "nil", dir |-> dir]
        ELSE IF tocEntry + 8 > Len(buf) THEN [ret |-> "error", dir |-> dir]
        ELSE IF tocEntry < 0 THEN [ret |-> "panic", dir |-> dir]
        ELSE IF nameIdx + 8 > Len(buf) THEN [ret |-> "error", dir |-> dir]
        ELSE IF nameIdx < 0 THEN [ret |-> "panic", dir |-> dir]
        ELSE IF nameByteOffset + nameByteSize > Len(buf) THEN [ret |-> "error", dir |-> dir]
        ELSE IF nameByteOffset < 0 \/ nameByteSize < 0 THEN [ret |-> "panic", dir |-> dir]
        ELSE IF dataStart + fileSize > Len(buf) THEN [ret |-> "error", dir |-> dir]
        ELSE IF fileSize < 4 \/ dataStart < 0 THEN [ret |-> "panic", dir |-> dir]
        ELSE IF fileSize < 8 THEN [ret |-> "error", dir |-> dir]
        ELSE IF ~decompressed THEN [ret |-> "panic", dir |-> dir]
        ELSE Bind(writeFile(dir, fname \o ssExt, SceneData, fault), LAMBDA w :
               IF ~w.ok THEN [ret |-> "error", dir |-> dir]
               ELSE extractFiles(w.dir, buf, i + 1, fault, decompressed))

\* ExtractPCK(pckPath, key1, outputDir), the file read: [ret, dir]
ExtractPCK(buf, dir, fault, decompressed) ==
    IF Len(buf) < pckHeaderSize THEN [ret |-> "error", dir |-> dir]
    ELSE IF Int32At(buf, 0) # pckHeaderSize THEN [ret |-> "error", dir |-> dir]
    ELSE IF sectionPanics(buf) THEN [ret |-> "panic", dir |-> dir]
    ELSE extractFiles(dumpSections(dir, buf, 1, fault), buf, 0, fault, decompressed)

RECURSIVE pckNames(_, _, _, _)
\* the loop of RebuildPCK over name4.bin, from the name i on: [ret, names]
pckNames(name4Bin, fnameStrData, i, names) ==
    LET idxOff == 4 + i * 8
        byteStart == Int32At(name4Bin, idxOff) * 2
        byteEnd == byteStart + Int32At(name4Bin, idxOff + 4) * 2
    IN  IF i >= Int32At(name4Bin, 0) THEN [ret |-> "nil", names |-> names]
        ELSE IF idxOff + 8 > Len(name4Bin) THEN [ret |-> "panic", names |-> names]
        ELSE IF byteEnd > Len(fnameStrData) THEN [ret |-> "error", names |-> names]
        ELSE IF byteStart < 0 \/ byteStart > byteEnd THEN [ret |-> "panic", names |-> names]
        ELSE pckNames(name4Bin, fnameStrData, i + 1,
                      Append(names, utf16LEToString(Slice(fnameStrData, byteStart, byteEnd))))

\* RebuildPCK(inputDir, key1, wtfVal, outputPath): [ret, missing, out];
\* missing is the file whose os.ReadFile failed, out the sections and the
\* scenes written to the output, in order
RebuildPCK(dir) ==
    LET absent == {i \in 1..Len(sectionNames) : (sectionNames[i] \o binExt) \notin DOMAIN dir}
        none == [ret |-> "error", missing |-> <<>>, out |-> <<>>]
    IN  IF absent # {}
        THEN [none EXCEPT !.missing =
                 sectionNames[CHOOSE i \in absent : \A j \in absent : i <= j] \o binExt]
        ELSE
          LET name4Bin == dir[sectionNames[7] \o binExt]
              fnameBin == dir[sectionNames[8] \o binExt]
          IN  IF Len(name4Bin) < 4 \/ Len(fnameBin) < 4 THEN [none EXCEPT !.ret = "panic"]
              ELSE Bind(pckNames(name4Bin, Slice(fnameBin, 4, Len(fnameBin)), 0, <<>>),
                        LAMBDA n :
                     IF n.ret # "nil" THEN [none EXCEPT !.ret = n.ret]
                     ELSE IF \E i \in 1..Len(sectionNames) :
                                Len(dir[sectionNames[i] \o binExt]) < 4
                     THEN [none EXCEPT !.ret = "panic"]
                     ELSE LET gone == {k \in 1..Len(n.names) :
                                         (n.names[k] \o ssExt) \notin DOMAIN dir}
                          IN  IF gone # {}
                              THEN [none EXCEPT !.missing =
                                      n.names[CHOOSE k \in gone : \A j \in gone : k <= j]
                                        \o ssExt]
                              ELSE [ret |-> "nil", missing |-> <<>>,
                                    out |-> [i \in 1..Len(sectionNames) |->
                                               Slice(dir[sectionNames[i] \o binExt], 4,
                                                     Len(dir[sectionNames[i] \o binExt]))]
                                            \o [k \in 1..Len(n.names) |->
                                                  dir[n.names[k] \o ssExt]]])

\* a call of ExtractPCK into an empty directory: one write at most fails,
\* and Decompress returns or panics
PckExtract ==
    /\ pckPc = "extract"
    /\ \E decompressed \in BOOLEAN :
         \E r \in {ExtractPCK(pckBuf, pckDir, pckFault, decompressed)} :
            /\ pckRet' = r.ret
            /\ pckDir' = r.dir
    /\ pckPc' = "extracted"
    /\ UNCHANGED <<pckBuf, pckFault, pckRb>>
    /\ UNCHANGED notPck

\* a call of RebuildPCK on the directory, after ExtractPCK returned nil;
\* os.Create of the output succeeds or fails
PckRebuild ==
    /\ pckPc = "extracted"
    /\ pckRet = "nil"
    /\ \E created \in BOOLEAN :
         \E r \in {RebuildPCK(pckDir)} :
            pckRb' = IF r.ret = "nil" /\ ~created
                     THEN [ret |-> "error", missing |-> <<>>, out |-> <<>>]
                     ELSE r
    /\ pckPc' = "rebuilt"
    /\ UNCHANGED <<pckBuf, pckDir, pckFault, pckRet>>
    /\ UNCHANGED notPck

\* --- the archives ---

\* a Scene.pck: the header, the eight sections one after another (the
\* first six of the given byte sizes, name4 with one entry for each scene
\* and fname with their names, A, B, ...), the table of contents and the
\* data, each scene a frame of frameLen bytes
PckFile(sizes, numFiles, frameLen) ==
    LET name4 == 8 * numFiles
        fname == 2 * numFiles
        start(i) == pckHeaderSize
                      + (IF i > 0 THEN sizes[1] ELSE 0) + (IF i > 1 THEN sizes[2] ELSE 0)
                      + (IF i > 2 THEN sizes[3] ELSE 0) + (IF i > 3 THEN sizes[4] ELSE 0)
                      + (IF i > 4 THEN sizes[5] ELSE 0) + (IF i > 5 THEN sizes[6] ELSE 0)
                      + (IF i > 6 THEN name4 ELSE 0) + (IF i > 7 THEN fname ELSE 0)
                      + (IF i > 8 THEN 8 * numFiles ELSE 0)
        count(i) == IF i < 6 THEN sizes[i + 1] \div 4 ELSE numFiles
        pairs == [p \in 1..80 |->
                    (LE32(start((p - 1) \div 8)) \o LE32(count((p - 1) \div 8)))
                      [((p - 1) % 8) + 1]]
    IN  LE32(pckHeaderSize) \o pairs \o LE32(1) \o LE32(0)
          \o Zeros(sizes[1] + sizes[2] + sizes[3] + sizes[4] + sizes[5] + sizes[6])
          \o [p \in 1..name4 |->
                (LE32((p - 1) \div 8) \o LE32(1))[((p - 1) % 8) + 1]]
          \o [p \in 1..fname |-> IF p % 2 = 1 THEN 65 + (p - 1) \div 2 ELSE 0]
          \o [p \in 1..(8 * numFiles) |->
                (LE32(((p - 1) \div 8) * frameLen) \o LE32(frameLen))[((p - 1) % 8) + 1]]
          \o Zeros(numFiles * frameLen)

MaxPckFiles == 2

PckFiles ==
    { PckFile(sizes, numFiles, frameLen) :
        sizes \in [1..6 -> {0, 4}], numFiles \in 0..MaxPckFiles, frameLen \in {3, 6, 12} }
      \cup {<<>>, LE32(90) \o Zeros(88)}

\* the writes that may fail: none, a section file, a scene
PckFaults ==
    {<<>>, sectionNames[1] \o binExt, sectionNames[8] \o binExt, <<65>> \o ssExt}

PckIdle ==
    /\ pckBuf = <<>>
    /\ pckDir = <<>>
    /\ pckFault = <<>>
    /\ pckRet = "none"
    /\ pckRb = [ret |-> "none", missing |-> <<>>, out |-> <<>>]
    /\ pckPc = "idle"

-----------------------------------------------------------------------------
(* The Reader on its own (disasm_test.go, type Reader): calls in any order  *)

\* ReadInt16: [ok, v, pos], v the int16 of the two bytes
ReadInt16(rd, pos) ==
    IF pos + 2 > rd.limit THEN [ok |-> FALSE, v |-> 0, pos |-> pos]
    ELSE [ok |-> TRUE,
          v |-> IF Uint16At(rd.data, pos) >= 32768
                THEN Uint16At(rd.data, pos) - 65536 ELSE Uint16At(rd.data, pos),
          pos |-> pos + 2]

\* ReadBytes(n) for n >= 0: [ok, data, pos]
ReadBytes(rd, pos, n) ==
    IF pos + n > rd.limit THEN [ok |-> FALSE, data |-> <<>>, pos |-> pos]
    ELSE [ok |-> TRUE, data |-> [k \in 1..n |-> At(rd.data, pos + k - 1)],
          pos |-> pos + n]

MaxRead == 3
MaxRollback == 2

\* the record of a call, and the last two of them
rdCall(op, n, ok, after) ==
    [op |-> op, n |-> n, ok |-> ok, before |-> rdPos, after |-> after]
rdRecord(call) ==
    IF rdCalls = <<>> THEN <<call>> ELSE <<rdCalls[Len(rdCalls)], call>>

RdNext ==
    /\ rdPos' = Next(rdR, rdPos).pos
    /\ rdCalls' = rdRecord(rdCall("Next", 0, Next(rdR, rdPos).ok, rdPos'))
    /\ UNCHANGED rdR
    /\ UNCHANGED notRd

\* Peek has no statement that assigns r.pos
RdPeek ==
    /\ rdPos' = rdPos
    /\ rdCalls' = rdRecord(rdCall("Peek", 0, Peek(rdR, rdPos).ok, rdPos'))
    /\ UNCHANGED rdR
    /\ UNCHANGED notRd

RdReadInt16 ==
    /\ rdPos' = ReadInt16(rdR, rdPos).pos
    /\ rdCalls' = rdRecord(rdCall("ReadInt16", 0, ReadInt16(rdR, rdPos).ok, rdPos'))
    /\ UNCHANGED rdR
    /\ UNCHANGED notRd

RdReadInt32 ==
    /\ rdPos' = ReadInt32(rdR, rdPos).pos
    /\ rdCalls' = rdRecord(rdCall("ReadInt32", 0, ReadInt32(rdR, rdPos).ok, rdPos'))
    /\ UNCHANGED rdR
    /\ UNCHANGED notRd

RdReadBytes ==
    \E n \in 0..MaxRead :
        /\ rdPos' = ReadBytes(rdR, rdPos, n).pos
        /\ rdCalls' = rdRecord(rdCall("ReadBytes", n, ReadBytes(rdR, rdPos, n).ok, rdPos'))
        /\ UNCHANGED rdR
        /\ UNCHANGED notRd

RdExpect ==
    \E expected \in {1, 2} :
        /\ rdPos' = Expect(rdR, rdPos, expected).pos
        /\ rdCalls' = rdRecord(rdCall("Expect", expected,
                                      Expect(rdR, rdPos, expected).ok, rdPos'))
        /\ UNCHANGED rdR
        /\ UNCHANGED notRd

RdRollback ==
    \E n \in 0..MaxRollback :
        /\ rdPos' = Rollback(rdR, rdPos, n)
        /\ rdCalls' = rdRecord(rdCall("Rollback", n, TRUE, rdPos'))
        /\ UNCHANGED rdR
        /\ UNCHANGED notRd

\* the readers NewReader(data, origin, limit, mode) makes over six bytes,
\* 0 <= origin <= limit <= len(data)
RdData == <<1, 2, 3, 4, 5, 6>>
RdReaders ==
    { [data |-> RdData, origin |-> o, limit |-> l, mode |-> ModeRealLive] :
        o \in 0..2, l \in 2..Len(RdData) }

RdIdle ==
    /\ rdR = [data |-> <<>>, origin |-> 0, limit |-> 0, mode |-> ModeRealLive]
    /\ rdPos = 0
    /\ rdCalls = <<>>


\* --- the metadata block of an RD* header ---

TransformNone == 0
TransformChinese == 1
TransformWestern == 2
TransformKorean == 3

\* Empty(): the zero Metadata
Empty ==
    [CompilerName |-> <<>>, CompilerVersion |-> 0,
     TargetVersion |-> <<0, 0, 0, 0>>, TextTransform |-> TransformNone]

MdReturn(m) == [panic |-> FALSE, m |-> m]
MdPanic == [panic |-> TRUE, m |-> Empty]

\* Read(arr, idx): [panic, m]; a slice or an index beyond the buffer panics
Read(arr, idx) ==
    IF idx + 8 > Len(arr) THEN MdReturn(Empty)
    ELSE LET metaLen == Int32At(arr, idx)
             idLen == Int32At(arr, idx + 4) + 1
             idx2 == idx + 8 + idLen
         IN  IF metaLen < idLen + 17 THEN MdReturn(Empty)
             ELSE IF idLen < 0 \/ idx2 + 8 >= Len(arr) THEN MdPanic
             ELSE MdReturn(
                    [CompilerName |-> ReadSz(arr, idx + 8, idLen),
                     CompilerVersion |-> Int32At(arr, idx2),
                     TargetVersion |-> Slice(arr, idx2 + 4, idx2 + 8),
                     TextTransform |->
                         IF At(arr, idx2 + 8) \in {TransformChinese, TransformWestern,
                                                   TransformKorean}
                         THEN At(arr, idx2 + 8)
                         ELSE TransformNone])

\* int32(version * 100) in float64 arithmetic, the version given by its
\* hundredths: 1.15 * 100 is 114.99999999999999 and 0.29 * 100 is
\* 28.999999999999996, both truncated; 0, 1.0, 1.41 and 2.0 are exact
verInt(hundredths) ==
    IF hundredths \in {115, 29} THEN hundredths - 1 ELSE hundredths

\* m.ToBytes(ident, version, targetVersion, transform)
ToBytes(ident, version, targetVersion, transform) ==
    LET identLen == Len(ident)
        totalLen == 4 + identLen + 1 + 4 + 4 + 1
        off == 8 + identLen + 1 + 4
        b0 == Zeros(totalLen + 4)
        b1 == CopyInto(b0, 0, LE32(totalLen))
        b2 == CopyInto(b1, 4, LE32(identLen))
        b3 == CopyInto(b2, 8, ident)
        b4 == CopyInto(b3, 8 + identLen, <<0>>)
        b5 == CopyInto(b4, 8 + identLen + 1, LE32(verInt(version)))
        b6 == CopyInto(b5, off, targetVersion)
    IN  CopyInto(b6, off + 4, <<transform % 256>>)

MdNoArgs == [ident |-> <<>>, version |-> 0, target |-> <<0, 0, 0, 0>>, transform |-> 0]

\* ToBytes is called with the arguments
MdToBytes ==
    /\ mdPc = "call"
    /\ mdBuf' = ToBytes(mdArgs.ident, mdArgs.version, mdArgs.target, mdArgs.transform)
    /\ mdPc' = "written"
    /\ UNCHANGED <<mdArgs, mdOut>>
    /\ UNCHANGED notMd

\* Read is called on the block, at offset 0
MdRead ==
    /\ mdPc \in {"written", "found"}
    /\ mdOut' = Read(mdBuf, 0)
    /\ mdPc' = IF mdPc = "written" THEN "read" ELSE "foundRead"
    /\ UNCHANGED <<mdArgs, mdBuf>>
    /\ UNCHANGED notMd

\* the compiler identifiers: none, "RL", "K", and one holding a zero byte
MdIdents == {<<>>, <<82, 76>>, <<75>>, <<82, 0, 76>>}
\* the versions in hundredths: 0, 0.29, 1.0, 1.15, 1.41, 2.0
MdVersions == {0, 29, 100, 115, 141, 200}
MdTargets == {<<0, 0, 0, 0>>, <<1, 2, 3, 4>>, <<1, 6, 0, 255>>}
\* the transforms: the four named ones and two values of the int type beyond
MdTransforms == {TransformNone, TransformChinese, TransformWestern, TransformKorean, 4, 257}

\* blocks as they stand in RD* headers: total_len = id_len + 18 with the
\* identifier "RL", the same with trailing header bytes, a block whose
\* identifier length points beyond the buffer, and a buffer too short for
\* the two lengths
MdBlocks ==
    { LE32(20) \o LE32(2) \o <<82, 76, 0>> \o LE32(141) \o <<1, 2, 3, 4, 2>>,
      LE32(20) \o LE32(2) \o <<82, 76, 0>> \o LE32(141) \o <<1, 2, 3, 4, 3, 9, 9>>,
      LE32(18) \o LE32(0) \o <<0>> \o LE32(100) \o <<1, 0, 0, 0, 1>>,
      LE32(200) \o LE32(100) \o <<82, 76, 0>>,
      LE32(20) \o LE32(2) \o <<82, 76, 0>> \o LE32(141) \o <<1, 2, 3, 4>>,
      <<20, 0, 0, 0>> }

MdIdle ==
    /\ mdArgs = MdNoArgs
    /\ mdBuf = <<>>
    /\ mdOut = MdReturn(Empty)
    /\ mdPc = "off"

-----------------------------------------------------------------------------
(* Specifications                                                          *)

LzIdle ==
    /\ lzIn = <<>>
    /\ lzOut = <<>>
    /\ lzOutPos = 0
    /\ lzInPos = 0
    /\ lzPc = "idle"
    /\ lzFrame = <<>>

LzInit ==
    /\ lzIn \in LzInputs
    /\ lzOut = Zeros(8 + Len(lzIn) * 2)
    /\ lzOutPos = 8
    /\ lzInPos = 0
    /\ lzPc = "loop"
    /\ lzFrame = <<>>
    /\ CmpIdle
    /\ ArcIdle
    /\ ScIdle
    /\ RgIdle
    /\ DisIdle
    /\ WrIdle
    /\ HdIdle
    /\ SsIdle
    /\ PckIdle
    /\ RdIdle
    /\ TkIdle
    /\ MdIdle

NextLZ == LzStep

\* Compress(x) for each input x
SpecLZ == LzInit /\ [][NextLZ]_vars

CmpInit ==
    /\ cmpIn \in CmpFiles
    /\ cmpKeys \in CmpKeyLists
    /\ cmpOut = CmpError
    /\ cmpBack = CmpError
    /\ cmpPc = "start"
    /\ LzIdle
    /\ ArcIdle
    /\ ScIdle
    /\ RgIdle
    /\ DisIdle
    /\ WrIdle
    /\ HdIdle
    /\ SsIdle
    /\ PckIdle
    /\ RdIdle
    /\ TkIdle
    /\ MdIdle

NextCmp == CmpCompress \/ CmpDecompress

\* Decompress(Compress(f, keys), keys, true) for each file f and key list
SpecCmp == CmpInit /\ [][NextCmp]_vars

ArcInit ==
    /\ arcFile \in InitialArchives
    /\ arcInit = arcFile
    /\ tmpFile = NoFile
    /\ tmpHandle = "none"
    /\ srcFiles \in SrcDisks
    /\ arcPc = "idle"
    /\ arcOp = ArcOpIdle
    /\ arcRet = "none"
    /\ arcFaults = 0
    /\ arcLog = <<>>
    /\ LzIdle
    /\ CmpIdle
    /\ ScIdle
    /\ RgIdle
    /\ DisIdle
    /\ WrIdle
    /\ HdIdle
    /\ SsIdle
    /\ PckIdle
    /\ RdIdle
    /\ TkIdle
    /\ MdIdle

ArcAdd == \E files \in AddInputs : Add(files)
ArcRemove == \E ranges \in RemoveInputs : Remove(ranges)
ArcDelete == \E tokens \in DeleteInputs : Delete(tokens)

NextArc ==
    \/ ArcAdd
    \/ ArcRemove
    \/ ArcDelete
    \/ WeCreate
    \/ WeWrite
    \/ RbCreate
    \/ RbReserve
    \/ RbData
    \/ RbIndex
    \/ RbRemoveOld
    \/ RbRename
    \/ RbDefer

\* archive operations run one after another on one archive path, each
\* filesystem call succeeding or failing
SpecArc == ArcInit /\ [][NextArc]_vars

ScInit ==
    /\ scArr \in ScBuffers
    /\ scRet = 0
    /\ scPc = "call"
    /\ LzIdle
    /\ CmpIdle
    /\ ArcIdle
    /\ RgIdle
    /\ DisIdle
    /\ WrIdle
    /\ HdIdle
    /\ SsIdle
    /\ PckIdle
    /\ RdIdle
    /\ TkIdle
    /\ MdIdle

NextSc == ScCall

\* SeenCount(arr) for each buffer arr
SpecSc == ScInit /\ [][NextSc]_vars

RgInit ==
    /\ rgArgs \in RangeInputs
    /\ rgOut = [err |-> FALSE, result |-> <<>>]
    /\ rgPc = "call"
    /\ LzIdle
    /\ CmpIdle
    /\ ArcIdle
    /\ ScIdle
    /\ DisIdle
    /\ WrIdle
    /\ HdIdle
    /\ SsIdle
    /\ PckIdle
    /\ RdIdle
    /\ TkIdle
    /\ MdIdle

NextRg == RgCall

\* ParseRanges(args) for each argument list
SpecRange == RgInit /\ [][NextRg]_vars

DisInit ==
    /\ disRd \in DisReaders
    /\ disPos = disRd.origin
    /\ disHdr \in DisHeaders
    /\ disOpts \in DisOptions
    /\ disResult = EmptyResult
    /\ disPc = "loop"
    /\ LzIdle
    /\ CmpIdle
    /\ ArcIdle
    /\ ScIdle
    /\ RgIdle
    /\ WrIdle
    /\ HdIdle
    /\ SsIdle
    /\ PckIdle
    /\ RdIdle
    /\ TkIdle
    /\ MdIdle

NextDis == DisStep

\* Disassemble on each stream, from the reader at the start of the code
SpecDis == DisInit /\ [][NextDis]_vars

WrInit ==
    /\ wrResult \in WrResults
    /\ wrOpts \in WrOptions
    /\ wrNext = 1
    /\ wrSkipping = FALSE
    /\ wrSrc = <<>>
    /\ wrPc = "open"
    /\ LzIdle
    /\ CmpIdle
    /\ ArcIdle
    /\ ScIdle
    /\ RgIdle
    /\ DisIdle
    /\ HdIdle
    /\ SsIdle
    /\ PckIdle
    /\ RdIdle
    /\ TkIdle
    /\ MdIdle

NextWr == WrOpen \/ WrCommand \/ WrReturn

\* WriteSource on each result and option set
SpecWr == WrInit /\ [][NextWr]_vars

HdInit ==
    /\ hdArr \in HdBuffers
    /\ hdRet = FileHeader(HeaderError)
    /\ hdPc = "call"
    /\ LzIdle
    /\ CmpIdle
    /\ ArcIdle
    /\ ScIdle
    /\ RgIdle
    /\ DisIdle
    /\ WrIdle
    /\ SsIdle
    /\ PckIdle
    /\ RdIdle
    /\ TkIdle
    /\ MdIdle

NextHd == HdReadFile \/ HdReadFull

\* ReadFileHeader and ReadFullHeader on each buffer
SpecHdr == HdInit /\ [][NextHd]_vars

SsInit ==
    /\ ssBuf \in SsFiles
    /\ ssRows \in SsRows
    /\ ssOut = SsError @@ [data |-> <<>>]
    /\ ssDump = SsError @@ [lines |-> <<>>]
    /\ ssPc = "inject"
    /\ LzIdle
    /\ CmpIdle
    /\ ArcIdle
    /\ ScIdle
    /\ RgIdle
    /\ DisIdle
    /\ WrIdle
    /\ HdIdle
    /\ PckIdle
    /\ RdIdle
    /\ TkIdle
    /\ MdIdle

NextSs == SsInject \/ SsDumpOutput

\* InjectSS of each scene file with each TSV, then DumpSS of the output
SpecSS == SsInit /\ [][NextSs]_vars

PckInit ==
    /\ pckBuf \in PckFiles
    /\ pckDir = <<>>
    /\ pckFault \in PckFaults
    /\ pckRet = "none"
    /\ pckRb = [ret |-> "none", missing |-> <<>>, out |-> <<>>]
    /\ pckPc = "extract"
    /\ LzIdle
    /\ CmpIdle
    /\ ArcIdle
    /\ ScIdle
    /\ RgIdle
    /\ DisIdle
    /\ WrIdle
    /\ HdIdle
    /\ SsIdle
    /\ RdIdle
    /\ TkIdle
    /\ MdIdle

NextPck == PckExtract \/ PckRebuild

\* ExtractPCK of each archive into an empty directory, then RebuildPCK
SpecPck == PckInit /\ [][NextPck]_vars

RdInit ==
    /\ rdR \in RdReaders
    /\ rdPos = rdR.origin
    /\ rdCalls = <<>>
    /\ LzIdle
    /\ CmpIdle
    /\ ArcIdle
    /\ ScIdle
    /\ RgIdle
    /\ DisIdle
    /\ WrIdle
    /\ HdIdle
    /\ SsIdle
    /\ PckIdle
    /\ TkIdle
    /\ MdIdle

NextRd ==
    \/ RdNext
    \/ RdPeek
    \/ RdReadInt16
    \/ RdReadInt32
    \/ RdReadBytes
    \/ RdExpect
    \/ RdRollback

\* any sequence of calls on a new Reader
SpecRd == RdInit /\ [][NextRd]_vars

TkInit ==
    /\ \E c \in TkCalls :
          /\ c[2] < Len(c[1])
          /\ tkBuf = c[1]
          /\ tkPos = c[2]
    /\ tkMatch = <<0, 0>>
    /\ tkRef = 0
    /\ tkPc = "search"
    /\ LzIdle
    /\ CmpIdle
    /\ ArcIdle
    /\ ScIdle
    /\ RgIdle
    /\ DisIdle
    /\ WrIdle
    /\ HdIdle
    /\ SsIdle
    /\ PckIdle
    /\ RdIdle
    /\ MdIdle

NextTk == TkSearch

\* searchData at a position of an input, and the token of its match
SpecTok == TkInit /\ [][NextTk]_vars


MdInit ==
    /\ \/ /\ mdPc = "call"
          /\ mdArgs \in [ident : MdIdents, version : MdVersions,
                         target : MdTargets, transform : MdTransforms]
          /\ mdBuf = <<>>
       \/ /\ mdPc = "found"
          /\ mdArgs = MdNoArgs
          /\ mdBuf \in MdBlocks
    /\ mdOut = MdReturn(Empty)
    /\ LzIdle
    /\ CmpIdle
    /\ ArcIdle
    /\ ScIdle
    /\ RgIdle
    /\ DisIdle
    /\ WrIdle
    /\ HdIdle
    /\ SsIdle
    /\ PckIdle
    /\ RdIdle
    /\ TkIdle

NextMd == MdToBytes \/ MdRead

\* a block serialised by ToBytes, or found in a header, and read by Read
SpecMd == MdInit /\ [][NextMd]_vars

-----------------------------------------------------------------------------
(* Properties                                                              *)

\* C1: LZ77 round trip of the Siglus codec: Compress(x) returns a frame from
\* which Decompress reproduces x.  As a step property: at the head of the
\* outer loop with the whole input consumed, the next step returns, and
\* Decompress of the returned frame is x.
C1_CompressReturnsRoundTrip ==
    [][(lzPc = "loop" /\ lzInPos >= Len(lzIn))
          => (lzPc' = "done" /\ Decompress(lzFrame') = lzIn)]_vars

\* C2: Compress mirrors Decompress: for an uncompressed V2 file f whose
\* compressed-size field is > 0 and any key list, Decompress(Compress(f,
\* keys), keys, true) has length len(f) and the bytes of f from data_offset on.
C2_CompressMirrorsDecompress ==
    (cmpPc = "done" /\ Int32At(cmpIn, 40) > 0) =>
        /\ cmpBack.ok
        /\ Len(cmpBack.data) = Len(cmpIn)
        /\ Slice(cmpBack.data, CmpDataOffset, Len(cmpBack.data))
              = Slice(cmpIn, CmpDataOffset, Len(cmpIn))

\* the same when the size field at 0x24 is the length of the data region
CmpMirrorWhenSizeConsistent ==
    (cmpPc = "done" /\ Int32At(cmpIn, 40) > 0
        /\ Int32At(cmpIn, 36) = Len(cmpIn) - CmpDataOffset) =>
        /\ cmpBack.ok
        /\ Len(cmpBack.data) = Len(cmpIn)
        /\ Slice(cmpBack.data, CmpDataOffset, Len(cmpBack.data))
              = Slice(cmpIn, CmpDataOffset, Len(cmpIn))

rebuildReturnedNil == arcPc = "rbDefer" /\ arcRet = "nil"

\* C3: for every archive produced by the rebuild protocol (add or remove,
\* kept slots and new files), SeenCount of the written file is the number
\* of non-empty slots of its index.
C3_RebuiltArchiveCounts ==
    rebuildReturnedNil =>
        SeenCount(arcFile.buf) = Cardinality(NonEmptySlots(arcFile.buf))

RebuildPcs == {"rbCreate", "rbReserve", "rbData", "rbRemoveOld", "rbRename", "rbDefer"}

\* C4: atomic replace: in every state during a rebuild, a failed filesystem
\* step included, the target path holds the complete previous archive or the
\* complete new one; never a partial file, never no file.
C4_RebuildReplacesAtomically ==
    arcPc \in RebuildPcs =>
        /\ arcFile.exists
        /\ \/ arcFile.buf = arcOp.prev.buf
           \/ /\ arcPc \in {"rbRemoveOld", "rbRename", "rbDefer"}
              /\ arcFile.buf = arcOp.new

\* SeenCount as the claim C5 words it: the first non-empty slot failing one
\* of offset >= 80 000, offset+length <= len(buf), is_bytecode(buf, offset)
claimedValid(arr, entry) ==
    /\ entry.Offset >= IndexSize
    /\ entry.Offset + entry.Length <= BLen(arr)
    /\ IsBytecode(arr, entry.Offset)

claimedSeenCount(arr) ==
    LET slots == NonEmptySlots(arr)
        bad == {i \in slots : ~claimedValid(arr, getSubfileInfo(arr, i))}
    IN  IF bad = {} THEN Cardinality(slots)
        ELSE LET first == CHOOSE i \in bad : \A j \in bad : i <= j
                 count == Cardinality({i \in slots : i < first})
             IN  IF count >= 1 THEN -count ELSE -1

\* C5: SeenCount walks the slots in index order; the first non-empty slot
\* that fails offset >= 80 000, offset+length <= len(buf) or is_bytecode
\* makes it return -count (count >= 1) or -1; with no failing slot it
\* returns the number of non-empty slots; so every slot counted has
\* offset >= 80 000.
C5_SeenCountValidates ==
    (scPc = "done" /\ scArr.hasIndex) =>
        /\ scRet = claimedSeenCount(scArr)
        /\ scRet > 0 =>
             \A i \in NonEmptySlots(scArr) :
                 getSubfileInfo(scArr, i).Offset >= IndexSize

addThenRemove ==
    /\ arcInit \in EmptyArchives
    /\ arcLog = << [kind |-> "add", arg |-> <<Name0001>>],
                   [kind |-> "remove", arg |-> <<1>>] >>
    /\ arcPc = "idle"
    /\ arcFaults = 0

\* C6: from an empty archive, add SEEN0001.TXT then remove 1 (no filesystem
\* call failing) leaves an archive file of 80 000 zero bytes or the empty
\* marker, and SeenCount of it is 0.
C6_AddRemoveRoundTrip ==
    addThenRemove =>
        /\ arcFile.exists
        /\ arcFile.buf \in {ZeroIndex, Plain(emptyArcMagic)}
        /\ SeenCount(arcFile.buf) = 0

\* the case: the file was added to slot 1, and Remove emptied the archive
C6_witness ==
    /\ addThenRemove
    /\ arcOp.via = "empty"
    /\ arcRet = "nil"
    /\ srcFiles[Name0001].buf.data = FileUncompressed
    /\ arcInit = NoFile

RECURSIVE lengthsBelow(_, _)
\* the sum of the lengths of the slots of index below slot i
lengthsBelow(index, i) ==
    LET below == {j \in DOMAIN index : j < i}
    IN  IF below = {} THEN 0
        ELSE LET m == CHOOSE j \in below : \A k \in below : k <= j
             IN  index[m].Length + lengthsBelow(index, m)

\* C7: in every archive written by rebuild the non-empty slots lie in
\* ascending index order without gap or overlap: the first payload at
\* 80 000, each next one where the previous ends, each index entry giving
\* exactly its payload's offset and length.
C7_RebuildLayout ==
    rebuildReturnedNil =>
        LET b == arcFile.buf
            written == {i \in DOMAIN arcOp.sources :
                          LET r == sourceData(arcOp.arc, arcOp.sources[i])
                          IN  r.ok /\ Len(r.data) > 0}
        IN  /\ b.hasIndex
            /\ DOMAIN b.index = written
            /\ NonEmptySlots(b) = written
            /\ \A i \in written :
                 LET e == getSubfileInfo(b, i)
                     r == sourceData(arcOp.arc, arcOp.sources[i])
                 IN  /\ e.Offset = IndexSize + lengthsBelow(b.index, i)
                     /\ e.Length = Len(r.data)
                     /\ e.Offset + e.Length <= BLen(b)
                     /\ BRead(b, e.Offset, e.Length) = r.data
            /\ BLen(b) = IndexSize + lengthsBelow(b.index, MaxSeens)

\* the case: an archive whose payloads lay in descending index order, with
\* a new file added between and after its slots
C7_witness ==
    /\ rebuildReturnedNil
    /\ Cardinality(NonEmptySlots(arcFile.buf)) >= 3
    /\ 3 \in DOMAIN arcOp.arc.index
    /\ arcOp.arc.index[5].Offset < arcOp.arc.index[3].Offset
    /\ arcOp.sources[1].isFile

\* the range tokens: N, N-M (also ~ and .), !N, !N-M
isPositive(t) == rangeRe(t).ok \/ IsDigits(t)
isNegative(t) == negRangeRe(t).ok \/ negRe(t).ok

\* the indices a token names
tokenIndices(t) ==
    IF rangeRe(t).ok THEN {i \in 0..(MaxSeens - 1) : rangeRe(t).start <= i /\ i <= rangeRe(t).end}
    ELSE IF negRangeRe(t).ok
    THEN {i \in 0..(MaxSeens - 1) : negRangeRe(t).start <= i /\ i <= negRangeRe(t).end}
    ELSE IF negRe(t).ok THEN {negRe(t).val}
    ELSE {NumVal(t)} \cap (0..(MaxSeens - 1))

claimedRanges(args) ==
    LET pos == {k \in 1..Len(args) : isPositive(args[k])}
        neg == {k \in 1..Len(args) : isNegative(args[k])}
        selected == IF pos = {} /\ neg # {} THEN 0..(MaxSeens - 1)
                    ELSE UNION {tokenIndices(args[k]) : k \in pos}
    IN  selected \ UNION {tokenIndices(args[k]) : k \in neg}

\* C8: for every list of well-formed range tokens ParseRanges returns
\* exactly the indices selected by the positive tokens (all of 0..9999 when
\* there are negations and no positives) minus the negated ones, ascending
\* and with no index repeated.
C8_ParseRangesSortedUnique ==
    (/\ rgPc = "done"
     /\ Len(rgArgs) > 0
     /\ \A k \in 1..Len(rgArgs) : isPositive(rgArgs[k]) \/ isNegative(rgArgs[k])) =>
        /\ ~rgOut.err
        /\ SeqToSet(rgOut.result) = claimedRanges(rgArgs)
        /\ \A k \in 1..(Len(rgOut.result) - 1) :
              rgOut.result[k] < rgOut.result[k + 1]

\* C9: in every state of a disassembly, whatever the stream, the mode and
\* the options, each command of the result has an offset strictly greater
\* than the command before it.
C9_OffsetsStrictlyIncrease ==
    \A k \in 1..(Len(disResult.Commands) - 1) :
        disResult.Commands[k].Offset < disResult.Commands[k + 1].Offset

\* the case: a disassembly that ended with four commands or more, among
\* them a call whose argument could not be read, after which the reader
\* was rolled back, and a text
C9_witness ==
    /\ disPc = "done"
    /\ Len(disResult.Commands) >= 4
    /\ Len(disResult.ResStrs) >= 1
    /\ \E k \in 1..Len(disResult.Commands) :
          /\ disResult.Commands[k].Opcode # <<>>
          /\ k < Len(disResult.Commands)
          /\ disResult.Commands[k + 1].Offset = disResult.Commands[k].Offset + 8

\* the stream of the claim: '#', type 0, module 1, function 1, argc 1 and
\* then 0xFF where the overload byte stands, twelve bytes
GotoStreamClaimed == <<35, 0, 1, 1, 0, 1, 0, 255, 232, 3, 0, 0>>

\* goto 1000 with its overload byte, thirteen bytes
GotoStream == FnHeader(0, 1, 1, 1, 0) \o <<255>> \o LE32(1000)

singleGoto1000 ==
    /\ Len(disResult.Commands) = 1
    /\ Text(disResult.Commands[1])
         = Str(<<"g", "o", "t", "o", "(", "1", "0", "0", "0", ")">>)
    /\ disResult.Commands[1].IsJmp

\* C10 as stated: disassembling the twelve-byte stream gives a single
\* command with the text goto(1000) and IsJmp set.
C10_ClaimedStreamIsGoto ==
    (disPc = "done" /\ disRd.data = GotoStreamClaimed) => singleGoto1000

\* C10, amended: disassembling '#', 0, 1, 1, 0, 1, 0, 0, 0xFF, 0xE8, 3, 0,
\* 0, the call header with its overload byte and then the constant 1000,
\* gives a single command with the text goto(1000) and IsJmp set.
C10_GotoStreamIsGoto ==
    (disPc = "done" /\ disRd.data = GotoStream) => singleGoto1000

\* the case: the thirteen-byte stream disassembled to its end, no error
C10_witness ==
    /\ disPc = "done"
    /\ disRd.data = GotoStream
    /\ disPos = 13
    /\ ~disResult.Error
    /\ Len(disResult.Commands) = 1

RECURSIVE decVal(_)
\* the number that a string of decimal digits writes
decVal(t) ==
    IF t = <<>> THEN 0 ELSE decVal(SubSeq(t, 1, Len(t) - 1)) * 10 + (t[Len(t)] - 48)

\* the target offsets of a command: for goto(n) and gosub(n) with a
\* constant n, the offset n
jumpTargets(cmd) ==
    IF /\ Len(cmd.Kepago) = 2
       /\ cmd.Kepago[1] \in {Str(<<"g", "o", "t", "o">>), Str(<<"g", "o", "s", "u", "b">>)}
       /\ Len(cmd.Kepago[2]) > 2
       /\ \A k \in 2..(Len(cmd.Kepago[2]) - 1) : cmd.Kepago[2][k] \in 48..57
    THEN {decVal(SubSeq(cmd.Kepago[2], 2, Len(cmd.Kepago[2]) - 1))}
    ELSE {}

\* C11: when Disassemble has returned, the pointer set of the result holds
\* the target offset of every goto and gosub command and the offset of
\* every entrypoint command of the result.
C11_PointersCollected ==
    disPc = "done" =>
        \A k \in 1..Len(disResult.Commands) :
            /\ jumpTargets(disResult.Commands[k]) \subseteq disResult.Pointers
            /\ disResult.Commands[k].CType = "entrypoint"
                 => disResult.Commands[k].Offset \in disResult.Pointers

\* the command k of the result has a label: its offset is a pointer target
wrLabelled(k) == wrResult.Commands[k].Offset \in wrResult.Pointers

\* the command k comes after a jump with neither a label nor an unhide
\* command from the command after the jump to k itself
wrAfterJump(k) ==
    \E j \in 1..(k - 1) :
        /\ wrResult.Commands[j].IsJmp
        /\ \A i \in (j + 1)..k : ~wrLabelled(i) /\ ~wrResult.Commands[i].Unhide

\* the line of the command k is in the source file
wrWritten(k) ==
    \E i \in 1..Len(wrSrc) : wrSrc[i].cmd = k /\ wrSrc[i].text[1] = 32

\* C12: for every command list, pointer set and option set, a command whose
\* turn of the loop is over has its line in the source file exactly when it
\* is not suppressed, its own Hidden flag is off and its text is not empty,
\* where a command is suppressed when SuppressUncalled is on and it comes
\* after a jump with no label and no unhide command in between (itself
\* included).  So a labelled command is not suppressed, and with
\* SuppressUncalled off no command is.
C12_SuppressionAfterJump ==
    \A k \in 1..Len(wrResult.Commands) :
        k < wrNext =>
            (wrWritten(k) <=>
                /\ ~(wrOpts.SuppressUncalled /\ wrAfterJump(k))
                /\ ~wrResult.Commands[k].Hidden
                /\ formatCommand(wrResult.Commands[k], wrOpts) # <<>>)

\* the case: WriteSource returned after a goto, a suppressed call and a
\* labelled call that is written
C12_witness ==
    /\ wrPc = "nil"
    /\ wrOpts.SuppressUncalled
    /\ Len(wrResult.Commands) = 3
    /\ wrResult.Commands[1].IsJmp
    /\ ~wrResult.Commands[2].Unhide /\ ~wrResult.Commands[2].Hidden
    /\ ~wrLabelled(2) /\ wrLabelled(3)
    /\ ~wrWritten(2) /\ wrWritten(3)
    /\ Len(wrSrc) = 3

\* the bytes of a text that are neither markers nor lead bytes: the line
\* break, the pause and the ASCII characters that do not end a text
PlainTextBytes == ({1, 2} \cup 32..127) \ TextEnd

\* the reader stands at a run of plain text bytes that reaches a page break
\* (0x03) at the position p
pageBreakAt(p) ==
    /\ disPos <= p /\ p < disRd.limit
    /\ At(disRd.data, p) = 3
    /\ \A q \in disPos..(p - 1) : At(disRd.data, q) \in PlainTextBytes

\* C13: in a text, byte 0x03 ends the run: when the main loop stands at a
\* run of plain text bytes that reaches a 0x03, the command read there ends
\* just after that 0x03, whatever bytes follow it.
C13_PageBreakEndsText ==
    [][ \A p \in 0..Len(disRd.data) :
          (disPc = "loop" /\ pageBreakAt(p)) => disPos' = p + 1 ]_vars

\* a whole assignment: '$', intA[1], '=', '\', the constant 2, '\'
WholeAssignment ==
    <<36, 0, 91, 255>> \o LE32(1) \o <<93, 20, 92, 255>> \o LE32(2) \o <<92>>

\* the stream ends inside the command at the reader's position: what is
\* left of it is the beginning of the whole assignment, at least up to its
\* operator, and no more
truncatedAssignment ==
    /\ disRd.limit - disPos >= 10
    /\ disRd.limit - disPos < Len(WholeAssignment) - 1
    /\ SubSeq(disRd.data, disPos + 1, disRd.limit)
         = SubSeq(WholeAssignment, 1, disRd.limit - disPos)

\* C14: when the main loop meets a truncated command, here an assignment
\* that the end of the stream cuts short, Disassemble leaves the loop with
\* a description in result.Error and with the commands it had before that
\* command.
C14_AbortOnTruncatedCommand ==
    [][ (disPc = "loop" /\ truncatedAssignment) =>
          /\ disPc' = "done"
          /\ disResult'.Error
          /\ disResult'.Commands = disResult.Commands ]_vars

\* the header version the magic stands for
claimedVersion(magic) ==
    IF magic \in {magicKP2K, magicRD2K, magicCC01} THEN HeaderV1 ELSE HeaderV2

\* C15: ReadFileHeader applied to a buffer of 48 bytes or more on which
\* IsBytecode(buf, 0) holds returns no error, and a header of version 1 for
\* the magics KP2K, RD2K and cc 01 00 00, of version 2 for KPRL, RDRL,
\* KPRM, RDRM, d0 01 00 00 and b8 01 00 00.
C15_EveryMagicParsed ==
    (hdPc = "file" /\ Len(hdArr) >= 48 /\ IsBytecode(Plain(hdArr), 0)) =>
        /\ hdRet.hdr.ok
        /\ hdRet.hdr.HeaderVersion = claimedVersion(Slice(hdArr, 0, 4))

\* C16: ReadFileHeader and ReadFullHeader applied to any buffer return a
\* header or an error; they never read outside the buffer.
C16_HeaderParsingNeverPanics ==
    hdPc \in {"file", "full"} => ~hdRet.hdr.panic

\* the text the claim gives the string i of the output: the translation
\* when the TSV has one for i, the text DumpSS gives for the input otherwise
claimedText(i) ==
    IF i \in DOMAIN translationsOf(ssRows) THEN translationsOf(ssRows)[i]
    ELSE DumpSS(ssBuf).lines[i + 1]

\* C17: after InjectSS has written its output, DumpSS of the output returns
\* for every string index i the translation when one was supplied for i and
\* the original text otherwise, whether the sizes match or not.
C17_InjectThenDump ==
    ssPc = "dumped" =>
        /\ ssDump.ok
        /\ Len(ssDump.lines) = ssPair(ssBuf, 1).Size
        /\ \A i \in 0..(ssPair(ssBuf, 1).Size - 1) : ssDump.lines[i + 1] = claimedText(i)

\* the same for the files whose string index comes before the string table
C17_probe_IndexFirst ==
    (ssPc = "dumped" /\ ssPair(ssBuf, 1).Offset < ssPair(ssBuf, 2).Offset) =>
        /\ ssDump.ok
        /\ Len(ssDump.lines) = ssPair(ssBuf, 1).Size
        /\ \A i \in 0..(ssPair(ssBuf, 1).Size - 1) : ssDump.lines[i + 1] = claimedText(i)

\* C18: after ExtractPCK has returned nil, with no write having failed, the
\* output directory holds <name>.bin for each of the eight sections, and
\* RebuildPCK on that directory does not fail for a missing section file.
C18_ExtractEnablesRebuild ==
    (pckRet = "nil" /\ pckFault = <<>>) =>
        /\ \A i \in 1..Len(sectionNames) : (sectionNames[i] \o binExt) \in DOMAIN pckDir
        /\ pckPc = "rebuilt" => pckRb.missing \notin {sectionNames[i] \o binExt : i \in 1..8}

\* the same for the archives with no empty section
C18_probe_NoEmptySection ==
    (pckRet = "nil" /\ pckFault = <<>>
       /\ \A i \in 0..7 : pckPair(pckBuf, i).Offset < pckPair(pckBuf, i + 1).Offset) =>
        /\ \A i \in 1..Len(sectionNames) : (sectionNames[i] \o binExt) \in DOMAIN pckDir
        /\ pckPc = "rebuilt" => pckRb.missing \notin {sectionNames[i] \o binExt : i \in 1..8}

\* a file given to add that exists and whose base name has no match of
\* (?i)seen(\d{4})
unmatched(fname) == fileExists(fname) /\ seenIndexOf(BaseName(fname)) < 0

\* the step is a call of Add(arcName, files, opts)
addOf(files) ==
    /\ arcPc = "idle"
    /\ arcLog' = Append(arcLog, [kind |-> "add", arg |-> files])

\* C19: add given a file whose base name has no seen\d{4} match treats it as
\* a non-fatal warning. Whenever add is called with files that all exist,
\* one of them unmatched, on an archive that is absent or loads, and no
\* filesystem call fails, then add does not return an error, the unmatched
\* file is not among the sources handed to rebuild, and the archive file is
\* left as it was (the empty marker if there was none).
C19_UnmatchedNameIsWarning ==
    [][ \A files \in AddInputs :
          ( /\ addOf(files)
            /\ \E k \in 1..Len(files) : unmatched(files[k])
            /\ \A k \in 1..Len(files) : fileExists(files[k])
            /\ arcFile.exists => SeenCount(arcFile.buf) >= 0
            /\ arcFaults' = arcFaults )
          =>
          /\ arcRet' # "error"
          /\ arcPc' = "rbCreate" =>
               \A i \in DOMAIN arcOp'.sources :
                   arcOp'.sources[i].isFile => ~unmatched(arcOp'.sources[i].fname)
          /\ arcFile' = IF arcFile.exists THEN arcFile
                        ELSE FileOf(Plain(emptyArcMagic)) ]_vars

\* the same with a matching file beside the unmatched one: add goes on to
\* rebuild with the matching file only
C19_probe_WithMatchingFile ==
    [][ \A files \in AddInputs :
          ( /\ addOf(files)
            /\ \E k \in 1..Len(files) : unmatched(files[k])
            /\ \A k \in 1..Len(files) : fileExists(files[k])
            /\ anyAdded(files)
            /\ arcFile.exists => SeenCount(arcFile.buf) >= 0
            /\ arcFaults' = arcFaults )
          =>
          /\ arcPc' = "rbCreate"
          /\ arcRet' # "error"
          /\ \A i \in DOMAIN arcOp'.sources :
                 arcOp'.sources[i].isFile => ~unmatched(arcOp'.sources[i].fname)
          /\ \E i \in DOMAIN arcOp'.sources : arcOp'.sources[i].isFile ]_vars

\* rebuildArc was entered by the last operation and has returned
rebuildReturned == arcPc = "idle" /\ arcOp.via = "rebuild"

C20_probe_NoTmpWhenIdle == arcPc = "idle" => ~tmpFile.exists

\* the bytes at the reader's position are those of bytes
streamHas(bytes) ==
    /\ disPos + Len(bytes) <= disRd.limit
    /\ \A k \in 1..Len(bytes) : At(disRd.data, disPos + k - 1) = bytes[k]

\* function calls whose argument list is written '(' a1 ... an ')', with
\* the arguments as they are written: the expression 5, the string "A"
CallForms ==
    { [bytes |-> FnHeader(0, 1, 3, 1, 0) \o <<40, 255>> \o LE32(5) \o <<41>>,
       argc |-> 1, args |-> <<Str(<<"5">>)>>],
      [bytes |-> FnHeader(1, 4, 10, 1, 2) \o <<40, 34, 65, 34, 41>>,
       argc |-> 1, args |-> << <<34, 65, 34>> >>] }

\* the length of '#', type, module, function, argc, overload
FnHeaderLen == Len(FnHeader(0, 0, 0, 0, 0))

\* C21: for a function call whose argument list is written '(' a1 ... an ')'
\* the disassembler consumes the '(', reads exactly the n data elements and
\* consumes the ')', for string and expression arguments alike: the
\* arguments read are a1..an and the command ends where its ')' ends, no
\* byte of the next command consumed.
C21_ArgumentListRead ==
    [][ \A c \in CallForms :
          (disPc = "loop" /\ streamHas(c.bytes)) =>
              /\ Bind(readFuncArgs(disRd, disPos + FnHeaderLen, c.argc), LAMBDA r :
                   r.ok /\ r.args = c.args /\ r.pos = disPos + Len(c.bytes))
              /\ disPos' = disPos + Len(c.bytes) ]_vars

\* the same for string arguments alone
C21_probe_StringArguments ==
    [][ \A c \in {f \in CallForms : f.args = << <<34, 65, 34>> >>} :
          (disPc = "loop" /\ streamHas(c.bytes)) =>
              /\ Bind(readFuncArgs(disRd, disPos + FnHeaderLen, c.argc), LAMBDA r :
                   r.ok /\ r.args = c.args /\ r.pos = disPos + Len(c.bytes))
              /\ disPos' = disPos + Len(c.bytes) ]_vars

\* the assignment intA[1] = 2 written without the optional 0x5C before and
\* after its right-hand side, and written without the '[' of its variable
AssignNoBackslash == <<36, 0, 91, 255>> \o LE32(1) \o <<93, 20, 255>> \o LE32(2)
AssignNoBracket ==
    <<36, 0, 255>> \o LE32(1) \o <<93, 20, 92, 255>> \o LE32(2) \o <<92>>

AssignText == Str(<<"i", "n", "t", "A", "[", "1", "]", " ", "=", " ", "2">>)

\* the step reads the command written as bytes: it ends where bytes ends
\* and its text is AssignText
readsAssignment(bytes) ==
    (disPc = "loop" /\ streamHas(bytes)) =>
        /\ disPos' = disPos + Len(bytes)
        /\ Len(disResult'.Commands) = Len(disResult.Commands) + 1
        /\ Text(disResult'.Commands[Len(disResult'.Commands)]) = AssignText

\* C22: when a tolerated separator is missing (the '[' of a variable
\* reference, the optional 0x5C before or after an assignment's right-hand
\* side) no input byte is consumed in its place: the assignment is read as
\* if the separator were there and the reader stops at the end of the
\* assignment.
C22_MissingSeparatorNotConsumed ==
    [][ readsAssignment(AssignNoBracket) /\ readsAssignment(AssignNoBackslash) ]_vars

\* the same for the '[' alone, where readIntVar rolls back
C22_probe_MissingBracket == [][ readsAssignment(AssignNoBracket) ]_vars

\* the reader stands at a kidoku marker whose index k lies inside the table
markerAt(k) ==
    /\ disPos < disRd.limit
    /\ At(disRd.data, disPos) \in {64, 33}
    /\ GetIntForMode(disRd, disPos + 1).ok
    /\ GetIntForMode(disRd, disPos + 1).v = k
    /\ k < Len(disHdr)

\* C23: a kidoku marker ('@' or '!') with index k inside the kidoku table
\* yields an entrypoint command (Unhide, CType entrypoint) exactly when
\* KidokuLnums[k] >= 1 000 000, for every signed 32-bit table value;
\* otherwise it yields a kidoku comment.
C23_EntrypointThreshold ==
    [][ \A k \in 0..(Len(disHdr) - 1) :
          (disPc = "loop" /\ markerAt(k)) =>
              LET cmd == disResult'.Commands[Len(disResult'.Commands)]
              IN  /\ Len(disResult'.Commands) = Len(disResult.Commands) + 1
                  /\ IF disHdr[k + 1] >= 1000000
                     THEN cmd.Unhide /\ cmd.CType = "entrypoint"
                     ELSE ~cmd.Unhide /\ cmd.CType = "kidoku" ]_vars

\* the same for the table values from MinInt32 + 1 000 000 up
C23_probe_NoWrap ==
    [][ \A k \in 0..(Len(disHdr) - 1) :
          (disPc = "loop" /\ markerAt(k) /\ disHdr[k + 1] >= MinInt32 + 1000000) =>
              LET cmd == disResult'.Commands[Len(disResult'.Commands)]
              IN  /\ Len(disResult'.Commands) = Len(disResult.Commands) + 1
                  /\ IF disHdr[k + 1] >= 1000000
                     THEN cmd.Unhide /\ cmd.CType = "entrypoint"
                     ELSE ~cmd.Unhide /\ cmd.CType = "kidoku" ]_vars

\* the call before the last one and the last one
rdLast == rdCalls[Len(rdCalls)]
rdNextThenRollback ==
    /\ Len(rdCalls) = 2
    /\ rdCalls[1].op = "Next"
    /\ rdCalls[2].op = "Rollback" /\ rdCalls[2].n = 1

rdInBounds == rdR.origin <= rdPos /\ rdPos <= rdR.limit
rdPeekKeepsPos ==
    (rdCalls # <<>> /\ rdLast.op = "Peek") => rdLast.after = rdLast.before

C25_CompressTerminates ==
    [][ lzPc = "loop" =>
          \/ lzInPos' > lzInPos
          \/ /\ lzPc' = "done"
             /\ Uint32At(lzFrame', 0) = Len(lzFrame')
             /\ Uint32At(lzFrame', 4) = Len(lzIn) ]_vars

\* while input is left every turn consumes some of it
C25_probe_ProgressWhileInputLeft ==
    [][ (lzPc = "loop" /\ lzInPos < Len(lzIn)) => lzInPos' > lzInPos ]_vars

\* the loop is never left: no state has Compress returned
C25_probe_NeverReturns == lzPc # "done"

\* C26: every back-reference survives the 16-bit token: for each match
\* (offset, length) returned by searchData over the 4 096-byte window, with
\* length in 3..17, the token t written satisfies t >> 4 = offset and
\* (t & 0x0F) + 2 = length.
C26_TokenKeepsMatch ==
    (tkPc = "done" /\ tkMatch[1] # 0) =>
        /\ tkMatch[2] + 2 \in acceptLevel..level
        /\ tkRef \div 16 = tkMatch[1]
        /\ (tkRef % 16) + 2 = tkMatch[2] + 2

\* the same for the matches less than a whole window back
C26_probe_BelowWindow ==
    (tkPc = "done" /\ tkMatch[1] # 0 /\ tkMatch[1] < lookback) =>
        /\ tkMatch[2] + 2 \in acceptLevel..level
        /\ tkRef \div 16 = tkMatch[1]
        /\ (tkRef % 16) + 2 = tkMatch[2] + 2

\* the step is a delete of the command line with the range arguments
\* tokens, all of them well formed
deleteOf(tokens) ==
    /\ arcPc = "idle"
    /\ \A k \in 1..Len(tokens) : isPositive(tokens[k]) \/ isNegative(tokens[k])
    /\ arcLog' = Append(arcLog, [kind |-> "remove",
                                 arg |-> ParseRanges(tokens).result])

\* C27: a non-empty selector list acts only on the indices it selects: a
\* delete whose tokens select no index at all (5 !5, or the out-of-range
\* 10000) returns at once and leaves the archive file as it is; a delete
\* that goes on to rebuild keeps every slot its tokens do not select.
C27_SelectorsSelectingNothing ==
    [][ \A tokens \in DeleteInputs :
          deleteOf(tokens) =>
              /\ claimedRanges(tokens) = {} =>
                    (arcPc' = "idle" /\ arcFile' = arcFile)
              /\ arcPc' = "rbCreate" =>
                    \A i \in NonEmptySlots(arcFile.buf) \ claimedRanges(tokens) :
                        i \in DOMAIN arcOp'.sources ]_vars

\* the same for the selector lists that select some index
C27_probe_SelectingSome ==
    [][ \A tokens \in DeleteInputs :
          (deleteOf(tokens) /\ claimedRanges(tokens) # {}) =>
              /\ arcPc' = "rbCreate" =>
                    \A i \in NonEmptySlots(arcFile.buf) \ claimedRanges(tokens) :
                        i \in DOMAIN arcOp'.sources
              /\ arcPc' = "weCreate" =>
                    NonEmptySlots(arcFile.buf) \subseteq claimedRanges(tokens) ]_vars


\* the bytes of slot i of an archive buffer
slotBytes(arr, i) ==
    BRead(arr, getSubfileInfo(arr, i).Offset, getSubfileInfo(arr, i).Length)

\* the first operation on the archive was Add(arcName, files, opts), no
\* filesystem call failed, and it has returned
addReturned(files) ==
    /\ arcLog = << [kind |-> "add", arg |-> files] >>
    /\ arcPc = "idle"
    /\ arcFaults = 0

\* the compressed bytes of the input files given for slot i that exist and
\* that readAndCompress accepts
addedBytes(files, i) ==
    { readAndCompress(srcFiles[files[k]]).data :
        k \in {k \in 1..Len(files) :
                 /\ fileExists(files[k])
                 /\ seenIndexOf(BaseName(files[k])) = i
                 /\ readAndCompress(srcFiles[files[k]]).ok} }

\* C28: add never loses an existing slot. After add has returned, every slot
\* that was non-empty before is non-empty and holds its previous bytes or
\* the bytes of a successfully read and compressed input file for that
\* index; when no input file for the index is read and compressed, the slot
\* holds its previous bytes.
C28_AddKeepsExistingSlots ==
    \A files \in AddInputs :
        (addReturned(files) /\ arcInit.exists) =>
            \A i \in NonEmptySlots(arcInit.buf) :
                /\ arcFile.exists
                /\ i \in NonEmptySlots(arcFile.buf)
                /\ slotBytes(arcFile.buf, i)
                     \in {slotBytes(arcInit.buf, i)} \cup addedBytes(files, i)

\* the same for the slots no input file is given for
C28_probe_OtherSlotsKept ==
    \A files \in AddInputs :
        (addReturned(files) /\ arcInit.exists) =>
            \A i \in NonEmptySlots(arcInit.buf) :
                (\A k \in 1..Len(files) : seenIndexOf(BaseName(files[k])) # i) =>
                    /\ arcFile.exists
                    /\ i \in NonEmptySlots(arcFile.buf)
                    /\ slotBytes(arcFile.buf, i) = slotBytes(arcInit.buf, i)

\* and for the slots whose input file is read and compressed
C28_probe_ReadableFileReplaces ==
    \A files \in AddInputs :
        (addReturned(files) /\ arcInit.exists /\ arcRet = "nil") =>
            \A i \in NonEmptySlots(arcInit.buf) :
                addedBytes(files, i) # {} =>
                    /\ i \in NonEmptySlots(arcFile.buf)
                    /\ slotBytes(arcFile.buf, i) \in addedBytes(files, i)


\* a block that ToBytes wrote has been read
mdRoundTrip == mdPc = "read"

\* C29: metadata round trip. A block serialised by ToBytes, for any
\* identifier, compiler version, target version and text transform, is
\* accepted as valid by Read (never treated as absent) and read back with
\* the same identifier, version (times 100), target version and transform.
C29_MetadataRoundTrip ==
    mdRoundTrip =>
        /\ ~mdOut.panic
        /\ Int32At(mdBuf, 0) >= Int32At(mdBuf, 4) + 17
        /\ mdOut.m = [CompilerName |-> mdArgs.ident,
                      CompilerVersion |-> mdArgs.version,
                      TargetVersion |-> mdArgs.target,
                      TextTransform |-> mdArgs.transform]

\* what Read does with every block of ToBytes: the length test fails and the
\* block is taken as absent
C29_probe_AlwaysAbsent ==
    mdRoundTrip =>
        /\ mdOut = MdReturn(Empty)
        /\ Int32At(mdBuf, 0) = Len(mdArgs.ident) + 14
        /\ Len(mdBuf) = Len(mdArgs.ident) + 18

\* a block as found in a header, total_len = id_len + 18, is read
C29_probe_FoundBlockRead ==
    (mdPc = "foundRead" /\ Len(mdBuf) >= 20 /\ Int32At(mdBuf, 0) = 20) =>
        /\ mdOut.m.CompilerName = <<82, 76>>
        /\ mdOut.m.CompilerVersion = 141
        /\ mdOut.m.TargetVersion = <<1, 2, 3, 4>>
        /\ mdOut.m.TextTransform \in {TransformWestern, TransformKorean}


\* one turn of the main loop of Disassemble is taken with the reader not at
\* its end
loopTurn == disPc = "loop" /\ disPos < disRd.limit

\* what readCommand does in the turn that starts in this state
thisTurn == readCommand(disRd, disPos, disHdr, disOpts, Len(disResult.ResStrs))

\* C30: Disassemble terminates on every finite buffer. In every state the
\* main loop reaches with the reader not at its end, the turn that
\* readCommand takes from it either returns an error, which ends the loop,
\* or leaves the reader at least one byte beyond where the turn started and
\* not beyond the limit, also when readCommand rolls the reader back or an
\* argument list cannot be read: limit - pos falls with every turn.
C30_EachTurnAdvances ==
    loopTurn =>
        \A r \in {thisTurn} :
            r.err \/ (disPos + 1 <= r.pos /\ r.pos <= disRd.limit)

\* the case: a disassembly that ran to the end of its buffer without error,
\* through a call whose argument list could not be read (the reader stands
\* behind the eight bytes of the call's header) and a text read after the
\* rollback of its first byte
C30_witness ==
    /\ disPc = "done"
    /\ ~disResult.Error
    /\ disPos = disRd.limit
    /\ \E k \in 1..(Len(disResult.Commands) - 1) :
          /\ disResult.Commands[k].Opcode # <<>>
          /\ disResult.Commands[k + 1].Offset = disResult.Commands[k].Offset + 8
          /\ disResult.Commands[k + 1].CType = "textout"

\* the reader never stands beyond its limit, so limit - pos is a variant of
\* the loop
C30_probe_WithinLimit == disRd.origin <= disPos /\ disPos <= disRd.limit

\* a turn that appends no command (a control code read with ControlCodes
\* off) advances as well
C30_probe_SilentTurnAdvances ==
    loopTurn =>
        \A r \in {thisTurn} :
            (~r.err /\ r.cmds = <<>>) => r.pos > disPos

=============================================================================
